---------------------------- MODULE Spec2Model ----------------------------
(***************************************************************************)
(* The calculation lattice of Backtest.jl (python draft): BarLayer,        *)
(* CalcLattice (src/python/engine/engine.py) and the field operations      *)
(* WindowOp / CrossSectionalOp / SMA / Z_Score                             *)
(* (src/engine/fields/fields.py).                                          *)
(*                                                                         *)
(* A cell value is a float.  Floats are modelled exactly as numbers of the *)
(* form (n/d)*sqrt(r), r squarefree: the rationals (r = 1) are closed      *)
(* under SMA, and a Z_Score of such numbers is again of this form.  NaN is *)
(* the record with d = 0.                                                  *)
(***************************************************************************)
EXTENDS Integers, Sequences, FiniteSets, TLC

(***************************************************************************)
(* Bounds of the model.                                                    *)
(***************************************************************************)
MaxBars == 2            \* new_bar is called at most MaxBars times
MaxFields == 4          \* at most MaxFields fields are registered
MaxReaders == 3         \* add_data is called at most MaxReaders times
MaxTime == 3            \* the events pushed on a queue carry the times 0..MaxTime
MaxPaths == 2           \* a DataReader is given at most MaxPaths files
MaxIndex == 4           \* get_next_bar is called while __cur_data_index < MaxIndex
RecursionLimit == 6     \* the interpreter allows RecursionLimit nested __propagate calls
MaxRunFields == 2       \* a Backtest is given at most MaxRunFields fields before run

VARIABLES
    asset_ids,              \* CalcLattice.__asset_ids, in its iteration order
    num_bars_stored,        \* CalcLattice.__num_bars_stored
    field_ids,              \* CalcLattice.__field_ids
    window_dep_fields,      \* CalcLattice.__window_dep_fields
    cross_sectional_fields, \* CalcLattice.__cross_sectional_fields
    field_to_field_op,      \* CalcLattice.__field_to_field_op
    cur_bar_index,          \* CalcLattice.__cur_bar_index
    num_bars_completed,     \* CalcLattice._num_bars_completed
    recent_bars,            \* CalcLattice.__recent_bars
    num_assets_completed,   \* CalcLattice.__num_assets_completed
    last,                   \* the last call made on the lattice and how it ended
    trace,                  \* what the last new_bar call did, in order
    fed,                    \* the bars handed to new_bar so far, oldest first
    history,                \* the layer each new_bar call left behind, oldest first
    params,                 \* the argument of the last Field(params) call
    field_op_input,         \* Field.field_op_input
    backtest_asset_ids,     \* Backtest.__asset_ids
    datareaders,            \* Backtest.__datareaders
    twin,                   \* a second CalcLattice, driven next to the first
    events,                 \* EventQueue.series: the queued events in index order
    data_paths,             \* DataReader.data_paths
    cur_file_index,         \* DataReader.__cur_file_index
    cur_data_index,         \* DataReader.__cur_data_index
    cur_data,               \* DataReader.__cur_data
    genesis_field_ids,      \* DataReader.__genesis_field_ids
    returned,               \* the rows get_next_bar has returned, oldest first
    start_time,             \* Backtest.start_time
    end_time,               \* Backtest.end_time
    options,                \* Backtest.options
    can_run,                \* Backtest.__can_run
    fields,                 \* Backtest.__fields
    cur_time,               \* Backtest.cur_time
    backtest_cur_bar_index, \* Backtest.__cur_bar_index
    pc,                     \* where Backtest.run stands
    backtest_last,          \* the last call made on the Backtest and how it ended
    journal                 \* what run has done so far, in order

vars == <<asset_ids, num_bars_stored, field_ids, window_dep_fields,
          cross_sectional_fields, field_to_field_op, cur_bar_index,
          num_bars_completed, recent_bars, num_assets_completed, last,
          trace, fed, history, params, field_op_input, backtest_asset_ids,
          datareaders, twin, events, data_paths, cur_file_index,
          cur_data_index, cur_data, genesis_field_ids, returned, start_time,
          end_time, options, can_run, fields, cur_time, backtest_cur_bar_index,
          pc, backtest_last, journal>>

\* the variables of the calculation lattice
lattice_vars == <<asset_ids, num_bars_stored, field_ids, window_dep_fields,
                  cross_sectional_fields, field_to_field_op, cur_bar_index,
                  num_bars_completed, recent_bars, num_assets_completed,
                  trace, fed, history>>

\* the variables of a Field under construction
field_vars == <<params, field_op_input>>

\* the variables of a Backtest
backtest_vars == <<backtest_asset_ids, datareaders>>

\* the variables of a driver that runs two lattices
pair_vars == <<twin>>

\* the variables of an event queue, of a data reader and of a run
run_vars == <<events, data_paths, cur_file_index, cur_data_index, cur_data,
              genesis_field_ids, returned, start_time, end_time, options,
              can_run, fields, cur_time, backtest_cur_bar_index, pc,
              backtest_last, journal>>

\* the variables of a Backtest that runs, its queue aside
strategy_vars == <<start_time, end_time, options, can_run, fields, cur_time,
                   backtest_cur_bar_index, pc, backtest_last, journal>>

\* the variables of a DataReader
reader_vars == <<data_paths, cur_file_index, cur_data_index, cur_data,
                 genesis_field_ids, returned>>

\* a DataFrame: its column labels and its rows in order
DataFrame(columns, rows) == [columns |-> columns, rows |-> rows]

\* no DataReader has been built
NoReader ==
    /\ data_paths = <<>>
    /\ cur_file_index = -1
    /\ cur_data_index = -1
    /\ cur_data = DataFrame({}, <<>>)
    /\ genesis_field_ids = [is_none |-> TRUE, ids |-> {}]
    /\ returned = <<>>

\* no Backtest has been built to run
NoStrategy ==
    /\ start_time = 0
    /\ end_time = 0
    /\ options = [x \in {} |-> 0]
    /\ can_run = TRUE
    /\ fields = <<>>
    /\ cur_time = 0
    /\ backtest_cur_bar_index = -1
    /\ pc = "idle"
    /\ backtest_last = [op |-> "init", raised |-> "none", again |-> FALSE]
    /\ journal = <<>>

\* no queue, reader or run is looked at
NoRun ==
    /\ events = <<>>
    /\ NoReader
    /\ NoStrategy

----------------------------------------------------------------------------
(***************************************************************************)
(* Values.                                                                 *)
(***************************************************************************)
Abs(i) == IF i < 0 THEN -i ELSE i

RECURSIVE GCD(_, _)
GCD(a, b) == IF b = 0 THEN a ELSE GCD(b, a % b)

\* numpy.nan
NaN == [n |-> 0, d |-> 0, r |-> 0]

\* a number outside the value model (a sum of unlike surds); never produced
Unrepresentable == [n |-> 0, d |-> 0, r |-> 1]

IsNaN(v) == v = NaN

\* (n/d)*sqrt(r) in lowest terms, d > 0
Num(n, d, r) ==
    IF n = 0 THEN [n |-> 0, d |-> 1, r |-> 1]
    ELSE LET g == GCD(Abs(n), Abs(d))
             s == IF d < 0 THEN -1 ELSE 1
         IN  [n |-> s * (n \div g), d |-> s * (d \div g), r |-> r]

Float(i) == Num(i, 1, 1)

Add(x, y) ==
    IF x = Unrepresentable \/ y = Unrepresentable THEN Unrepresentable
    ELSE IF IsNaN(x) \/ IsNaN(y) THEN NaN
    ELSE IF x.n = 0 THEN y
    ELSE IF y.n = 0 THEN x
    ELSE IF x.r # y.r THEN Unrepresentable
    ELSE Num(x.n * y.d + y.n * x.d, x.d * y.d, x.r)

Neg(x) == IF x.d = 0 THEN x ELSE [x EXCEPT !.n = -x.n]

Sub(x, y) == Add(x, Neg(y))

\* x / k for an integer k >= 0 (0.0 / 0 is nan)
DivInt(x, k) == IF x.d = 0 THEN x ELSE IF k = 0 THEN NaN ELSE Num(x.n, x.d * k, x.r)

\* x * x, a rational
Square(x) == IF x.d = 0 THEN x ELSE Num(x.n * x.n * x.r, x.d * x.d, 1)

\* the largest s with s*s dividing m (m > 0)
SquarePart(m) ==
    CHOOSE s \in 1..m : /\ m % (s * s) = 0
                        /\ \A t \in (s + 1)..m : t * t > m \/ m % (t * t) # 0

\* x / sqrt(v) for a rational v > 0
DivSqrt(x, v) ==
    IF x = Unrepresentable \/ v = Unrepresentable THEN Unrepresentable
    ELSE IF IsNaN(x) \/ IsNaN(v) THEN NaN
    ELSE IF x.n = 0 THEN Float(0)
    ELSE LET m == x.r * v.n * v.d
             s == SquarePart(m)
         IN  Num(x.n * s, x.d * v.n, m \div (s * s))

\* Python truthiness of a float: only 0.0 is falsy (nan is truthy)
Truthy(v) == IsNaN(v) \/ v.n # 0

RECURSIVE SumSeq(_, _)
\* the sum of the non-NaN entries of vals[1..k] (pandas sum, skipna=True)
SumSeq(vals, k) ==
    IF k = 0 THEN Float(0)
    ELSE IF IsNaN(vals[k]) THEN SumSeq(vals, k - 1)
    ELSE Add(SumSeq(vals, k - 1), vals[k])

RECURSIVE SetToSeq(_)
SetToSeq(S) ==
    IF S = {} THEN <<>>
    ELSE LET x == CHOOSE y \in S : TRUE IN <<x>> \o SetToSeq(S \ {x})

----------------------------------------------------------------------------
(***************************************************************************)
(* Dictionaries are functions; a BarLayer is a dictionary from asset_id to *)
(* a dictionary from field_id to value.                                    *)
(***************************************************************************)
EmptyDict == [x \in {} |-> 0]

Put(d, k, v) == [x \in (DOMAIN d) \cup {k} |-> IF x = k THEN v ELSE d[x]]

Range(s) == {s[i] : i \in DOMAIN s}

Min(a, b) == IF a < b THEN a ELSE b

\* collections.Counter: a missing key counts 0
Count(c, k) == IF k \in DOMAIN c THEN c[k] ELSE 0

\* a slot of __recent_bars: np.zeros leaves 0 in it until a BarLayer is stored
NoLayer == [is_layer |-> FALSE, bar_data |-> EmptyDict]

\* BarLayer()
BarLayer == [is_layer |-> TRUE, bar_data |-> EmptyDict]

\* BarLayer.insert_value
insert_value(layer, asset_id, field_id, value) ==
    LET row == IF asset_id \in DOMAIN layer.bar_data
               THEN layer.bar_data[asset_id] ELSE EmptyDict
    IN  [layer EXCEPT !.bar_data = Put(layer.bar_data, asset_id,
                                       Put(row, field_id, value))]

\* does the layer hold a cell for (asset_id, field_id)?
HasCell(layer, asset_id, field_id) ==
    /\ layer.is_layer
    /\ asset_id \in DOMAIN layer.bar_data
    /\ field_id \in DOMAIN layer.bar_data[asset_id]

\* BarLayer.get_value: [exc, value]
get_value(layer, asset_id, field_id) ==
    IF HasCell(layer, asset_id, field_id)
    THEN [exc |-> "none", value |-> layer.bar_data[asset_id][field_id]]
    ELSE [exc |-> "KeyError", value |-> NaN]

----------------------------------------------------------------------------
(***************************************************************************)
(* The classes a Field can name as its field_operation.                    *)
(***************************************************************************)
IsWindowOp(cls) == cls = "SMA"
IsCrossSectionalOp(cls) == cls = "Z_Score"
IsInjectionOp(cls) == cls = "InjectionOp"

\* SMA.op: data.sum() / data.size
SMA_op(data) == DivInt(SumSeq(data, Len(data)), Len(data))

\* WindowOp.partial_data_op
partial_data_op(data) == NaN

\* Z_Score.op: (data - data.mean()) / data.std(); mean and std skip NaN,
\* std is the sample deviation (ddof = 1)
Z_Score_op(data) ==
    LET valid == {a \in DOMAIN data : ~IsNaN(data[a])}
        cnt   == Cardinality(valid)
        scores(mean, var) ==
            [a \in DOMAIN data |->
                IF IsNaN(data[a]) \/ IsNaN(var) THEN NaN
                ELSE IF var.n = 0 THEN NaN          \* 0.0 / 0.0
                ELSE DivSqrt(Sub(data[a], mean), var)]
        with_std(order, mean) ==
            scores(mean,
                   IF cnt < 2 THEN NaN
                   ELSE DivInt(SumSeq([i \in 1..cnt |->
                                  Square(Sub(data[order[i]], mean))], cnt), cnt - 1))
        with_mean(order) ==
            with_std(order,
                     IF cnt = 0 THEN NaN
                     ELSE DivInt(SumSeq([i \in 1..cnt |-> data[order[i]]], cnt), cnt))
    IN  with_mean(SetToSeq(valid))

----------------------------------------------------------------------------
(***************************************************************************)
(* Reads of the ring.  bars, cur and done stand for __recent_bars,         *)
(* __cur_bar_index and _num_bars_completed at the time of the read.        *)
(***************************************************************************)
\* CalcLattice.__cur_bar_index_inc_n (Python's % is non-negative)
cur_bar_index_inc_n(cur, n) == (cur + n) % num_bars_stored

\* a read that ignores the offset and hands out the current layer
get_n_bar_ago_data_current(bars, cur, done, ago) ==
    IF ago < 0 THEN [exc |-> "ValueError", layer |-> NoLayer]
    ELSE IF ago >= num_bars_stored THEN [exc |-> "ValueError", layer |-> NoLayer]
    ELSE IF ago > done THEN [exc |-> "IndexError", layer |-> NoLayer]
    ELSE [exc |-> "none", layer |-> bars[cur]]

\* a read whose capacity test is off by one (ago > num_bars_stored)
get_n_bar_ago_data_off_by_one(bars, cur, done, ago) ==
    IF ago < 0 THEN [exc |-> "ValueError", layer |-> NoLayer]
    ELSE IF ago > num_bars_stored THEN [exc |-> "ValueError", layer |-> NoLayer]
    ELSE IF ago > done THEN [exc |-> "IndexError", layer |-> NoLayer]
    ELSE [exc |-> "none", layer |-> bars[cur_bar_index_inc_n(cur, -ago)]]

\* a read without the test against the number of bars completed
get_n_bar_ago_data_unchecked(bars, cur, done, ago) ==
    IF ago < 0 THEN [exc |-> "ValueError", layer |-> NoLayer]
    ELSE IF ago >= num_bars_stored THEN [exc |-> "ValueError", layer |-> NoLayer]
    ELSE [exc |-> "none", layer |-> bars[cur_bar_index_inc_n(cur, -ago)]]

\* CalcLattice.__get_n_bar_ago_data: [exc, layer]
get_n_bar_ago_data(bars, cur, done, ago) ==
    IF ago < 0 THEN [exc |-> "ValueError", layer |-> NoLayer]
    ELSE IF ago >= num_bars_stored THEN [exc |-> "ValueError", layer |-> NoLayer]
    ELSE IF ago > done THEN [exc |-> "IndexError", layer |-> NoLayer]
    ELSE [exc |-> "none", layer |-> bars[cur_bar_index_inc_n(cur, -ago)]]

\* CalcLattice._get_n_bar_ago_field_data: [exc, data]; every asset of the
\* layer is looked up, and one without the field raises KeyError
get_n_bar_ago_field_data(bars, cur, done, ago, field_id) ==
    LET field_data(got) ==
            IF got.exc # "none" THEN [exc |-> got.exc, data |-> EmptyDict]
            ELSE IF ~got.layer.is_layer
            THEN [exc |-> "AttributeError", data |-> EmptyDict]
            ELSE IF \E a \in DOMAIN got.layer.bar_data :
                        field_id \notin DOMAIN got.layer.bar_data[a]
            THEN [exc |-> "KeyError", data |-> EmptyDict]
            ELSE [exc |-> "none",
                  data |-> [a \in DOMAIN got.layer.bar_data |->
                              got.layer.bar_data[a][field_id]]]
    IN  field_data(get_n_bar_ago_data(bars, cur, done, ago))

\* CalcLattice._get_n_bar_ago_asset_field_data, on the lattice's current
\* state: [exc, value]
get_n_bar_ago_asset_field_data(ago, asset_id, field_id) ==
    LET value_of(got) ==
            IF got.exc # "none" THEN [exc |-> got.exc, value |-> NaN]
            ELSE IF ~got.layer.is_layer
            THEN [exc |-> "AttributeError", value |-> NaN]
            ELSE get_value(got.layer, asset_id, field_id)
    IN  value_of(get_n_bar_ago_data(recent_bars, cur_bar_index,
                                    num_bars_completed, ago))

\* WindowOp.__get_window_of_data: [exc, data], data[ago + 1] the value ago
\* bars ago; the first read that fails decides the exception
get_window_of_data(bars, cur, done, op, asset_id) ==
    LET agos == 0..(Min(op.window_len, done + 1) - 1)
        window(read) ==
            LET bad == {ago \in agos : \/ read[ago].exc # "none"
                                       \/ asset_id \notin DOMAIN read[ago].data}
            IN  IF bad # {}
                THEN LET first == CHOOSE ago \in bad : \A b \in bad : ago <= b
                     IN  [exc |-> IF read[first].exc # "none" THEN read[first].exc
                                  ELSE "KeyError",
                          data |-> <<>>]
                ELSE [exc |-> "none",
                      data |-> [i \in 1..Cardinality(agos) |->
                                  read[i - 1].data[asset_id]]]
    IN  window([ago \in agos |->
                  get_n_bar_ago_field_data(bars, cur, done, ago,
                                           op.dependent_field_id)])

\* WindowOp.execute_op: [exc, value]
WindowOp_execute_op(bars, cur, done, op, asset_id) ==
    LET execute(got) ==
            IF got.exc # "none" THEN [exc |-> got.exc, value |-> NaN]
            ELSE IF Len(got.data) = op.window_len
            THEN [exc |-> "none", value |-> SMA_op(got.data)]
            ELSE IF Len(got.data) < op.window_len
            THEN [exc |-> "none", value |-> partial_data_op(got.data)]
            ELSE [exc |-> "Exception", value |-> NaN]
    IN  execute(get_window_of_data(bars, cur, done, op, asset_id))

\* CrossSectionalOp.execute_op: [exc, data]
CrossSectionalOp_execute_op(bars, cur, done, op) ==
    LET execute(got) ==
            IF got.exc # "none" THEN [exc |-> got.exc, data |-> EmptyDict]
            ELSE [exc |-> "none", data |-> Z_Score_op(got.data)]
    IN  execute(get_n_bar_ago_field_data(bars, cur, done, 0,
                                         op.dependent_field_id))

----------------------------------------------------------------------------
(***************************************************************************)
(* Propagation.  A call in progress carries st = [bars, nac, exc, trace,    *)
(* depth]: __recent_bars, __num_assets_completed, the exception raised so  *)
(* far ("none" while there is none), the log of what was done and the      *)
(* number of __propagate calls on the stack.  A raised exception unwinds:  *)
(* nothing after it runs.  The interpreter raises RecursionError when the  *)
(* stack is full.                                                          *)
(***************************************************************************)
Event(ev, asset_id, field_id, flag) ==
    [ev |-> ev, asset |-> asset_id, field |-> field_id, flag |-> flag]

\* an unwinding that rolls the ring back: every layer is discarded
Raise_discarding(st, exc) ==
    [st EXCEPT !.exc = exc, !.bars = [i \in DOMAIN st.bars |-> NoLayer]]

\* `raise`: the exception unwinds the call, the state stays as it is
Raise(st, exc) == [st EXCEPT !.exc = exc]

\* CalcLattice.__insert_node_in_cur_layer
insert_node_in_cur_layer(st, cur, asset_id, field_id, value) ==
    [st EXCEPT !.bars[cur] = insert_value(@, asset_id, field_id, value),
               !.trace = Append(@, Event("insert", asset_id, field_id, TRUE))]

\* the cross-sectional result handed to __propagate (None when absent)
NoResults == [given |-> FALSE, data |-> EmptyDict]
Results(data) == [given |-> TRUE, data |-> data]

\* the value __propagate computes for the node: [exc, is_none, value]
node_result(st, cur, done, asset_id, field_id, cross_sectional_results) ==
    LET field_op == field_to_field_op[field_id]
        window_result(got) ==
            [exc |-> got.exc, is_none |-> FALSE, value |-> got.value]
    IN  IF IsWindowOp(field_op.cls)
        THEN window_result(WindowOp_execute_op(st.bars, cur, done, field_op,
                                               asset_id))
        ELSE IF IsCrossSectionalOp(field_op.cls)
        THEN IF ~cross_sectional_results.given
             THEN [exc |-> "NameError", is_none |-> TRUE, value |-> NaN]
             ELSE IF asset_id \notin DOMAIN cross_sectional_results.data
             THEN [exc |-> "KeyError", is_none |-> TRUE, value |-> NaN]
             ELSE [exc |-> "none", is_none |-> FALSE,
                   value |-> cross_sectional_results.data[asset_id]]
        ELSE IF IsInjectionOp(field_op.cls)
        THEN [exc |-> "none", is_none |-> TRUE, value |-> NaN]
        ELSE [exc |-> "ValueError", is_none |-> TRUE, value |-> NaN]

\* `if result:` in __propagate
StoresResult(result) == ~result.is_none /\ Truthy(result.value)

\* does the current layer hold field_id for every asset of the lattice?
CrossSectionComplete(st, cur, field_id) ==
    \A a \in Range(asset_ids) : HasCell(st.bars[cur], a, field_id)

RECURSIVE propagate(_, _, _, _, _, _)
RECURSIVE propagate_window_deps(_, _, _, _, _, _)
RECURSIVE propagate_assets(_, _, _, _, _, _)
RECURSIVE propagate_window_fields(_, _, _, _, _)
RECURSIVE propagate_cross_sectional(_, _, _, _, _)

\* a propagation that counts the asset and releases the barrier before it
\* descends into the window dependants
propagate_count_first(st, cur, done, asset_id, field_id, cross_sectional_results) ==
    IF st.exc # "none" THEN st
    ELSE IF st.depth >= RecursionLimit THEN Raise(st, "RecursionError")
    ELSE
    LET window(counted) ==
            IF counted.exc = "none" /\ field_id \in DOMAIN window_dep_fields
            THEN propagate_window_deps(counted, cur, done, asset_id,
                                       window_dep_fields[field_id], 1)
            ELSE counted
        barrier(counted) ==
            IF /\ field_id \in DOMAIN cross_sectional_fields
               /\ Count(counted.nac, field_id) = Len(asset_ids)
            THEN propagate_cross_sectional(counted, cur, done,
                                           cross_sectional_fields[field_id], 1)
            ELSE counted
        count(stored) ==
            window(barrier([stored EXCEPT
                              !.nac = Put(@, field_id, Count(@, field_id) + 1),
                              !.trace = Append(@, Event("completed", asset_id,
                                                        field_id, TRUE))]))
        store(entered, result) ==
            IF result.exc # "none" THEN Raise(entered, result.exc)
            ELSE count(IF StoresResult(result)
                       THEN insert_node_in_cur_layer(entered, cur, asset_id,
                                                     field_id, result.value)
                       ELSE entered)
        leave(finished) == [finished EXCEPT !.depth = st.depth]
    IN  leave(store([st EXCEPT !.trace =
                          Append(@, Event("propagate", asset_id, field_id, TRUE)),
                        !.depth = @ + 1],
                    node_result(st, cur, done, asset_id, field_id,
                                cross_sectional_results)))

\* CalcLattice.__propagate
propagate(st, cur, done, asset_id, field_id, cross_sectional_results) ==
    IF st.exc # "none" THEN st
    ELSE IF st.depth >= RecursionLimit THEN Raise(st, "RecursionError")
    ELSE
    LET \* the barrier: fan out to the cross-sectional dependants once the
        \* count of completed assets equals the number of assets
        barrier(counted) ==
            IF /\ field_id \in DOMAIN cross_sectional_fields
               /\ Count(counted.nac, field_id) = Len(asset_ids)
            THEN propagate_cross_sectional(counted, cur, done,
                                           cross_sectional_fields[field_id], 1)
            ELSE counted
        \* self.__num_assets_completed[field_id] += 1
        count(windowed) ==
            IF windowed.exc # "none" THEN windowed
            ELSE barrier([windowed EXCEPT
                            !.nac = Put(@, field_id, Count(@, field_id) + 1),
                            !.trace = Append(@, Event("completed", asset_id,
                                                      field_id, TRUE))])
        \* propagate the window dependants of this field for this asset
        window(stored) ==
            count(IF field_id \in DOMAIN window_dep_fields
                  THEN propagate_window_deps(stored, cur, done, asset_id,
                                             window_dep_fields[field_id], 1)
                  ELSE stored)
        \* `if result: self.__insert_node_in_cur_layer(...)`
        store(entered, result) ==
            IF result.exc # "none" THEN Raise(entered, result.exc)
            ELSE window(IF StoresResult(result)
                        THEN insert_node_in_cur_layer(entered, cur, asset_id,
                                                      field_id, result.value)
                        ELSE entered)
        \* the call returns or unwinds: its frame leaves the stack
        leave(finished) == [finished EXCEPT !.depth = st.depth]
    IN  leave(store([st EXCEPT !.trace =
                          Append(@, Event("propagate", asset_id, field_id, TRUE)),
                        !.depth = @ + 1],
                    node_result(st, cur, done, asset_id, field_id,
                                cross_sectional_results)))

\* `for window_field_id in self.__window_dep_fields[field_id]` in __propagate
propagate_window_deps(st, cur, done, asset_id, window_field_ids, i) ==
    IF i > Len(window_field_ids) \/ st.exc # "none" THEN st
    ELSE propagate_window_deps(
            propagate(st, cur, done, asset_id, window_field_ids[i], NoResults),
            cur, done, asset_id, window_field_ids, i + 1)

\* `for asset_id in self.__asset_ids: self.__propagate(asset_id, field_id, ...)`
propagate_assets(st, cur, done, field_id, cross_sectional_results, j) ==
    IF j > Len(asset_ids) \/ st.exc # "none" THEN st
    ELSE propagate_assets(
            propagate(st, cur, done, asset_ids[j], field_id, cross_sectional_results),
            cur, done, field_id, cross_sectional_results, j + 1)

\* `for window_field_id in window_gen_dep_fields` in
\* __propagate_from_genesis_field
propagate_window_fields(st, cur, done, window_field_ids, i) ==
    IF i > Len(window_field_ids) \/ st.exc # "none" THEN st
    ELSE propagate_window_fields(
            propagate_assets(st, cur, done, window_field_ids[i], NoResults, 1),
            cur, done, window_field_ids, i + 1)

\* `for cross_section_field_id in self.__cross_sectional_fields[...]`:
\* execute the op once, then propagate its results to every asset
propagate_cross_sectional(st, cur, done, cross_section_field_ids, i) ==
    IF i > Len(cross_section_field_ids) \/ st.exc # "none" THEN st
    ELSE
    LET cross_section_field_id == cross_section_field_ids[i]
        dep_field_op == field_to_field_op[cross_section_field_id]
        fan_out(executed, dep_field_results) ==
            IF dep_field_results.exc # "none"
            THEN Raise(executed, dep_field_results.exc)
            ELSE propagate_cross_sectional(
                    propagate_assets(executed, cur, done, cross_section_field_id,
                                     Results(dep_field_results.data), 1),
                    cur, done, cross_section_field_ids, i + 1)
    IN  fan_out([st EXCEPT !.trace =
                    Append(@, Event("execute_op", "*", cross_section_field_id,
                              CrossSectionComplete(st, cur,
                                    dep_field_op.dependent_field_id)))],
                CrossSectionalOp_execute_op(st.bars, cur, done, dep_field_op))

\* CalcLattice.__propagate_from_genesis_field
propagate_from_genesis_field(st, cur, done, gen_field_id) ==
    LET cross_sectional(windowed) ==
            IF gen_field_id \in DOMAIN cross_sectional_fields
            THEN propagate_cross_sectional(windowed, cur, done,
                                           cross_sectional_fields[gen_field_id], 1)
            ELSE windowed
    IN  cross_sectional(IF gen_field_id \in DOMAIN window_dep_fields
                        THEN propagate_window_fields(st, cur, done,
                                        window_dep_fields[gen_field_id], 1)
                        ELSE st)

----------------------------------------------------------------------------
(***************************************************************************)
(* new_bar.  new_bar_data is a dict of dicts; a dict handed in is          *)
(* [keys, vals]: its keys in iteration order and its mapping.              *)
(***************************************************************************)
DAGStatusCodes_CIRCULAR == -1
DAGStatusCodes_OK == 1

\* CalcLattice.__check_DAG
check_DAG == DAGStatusCodes_OK

RECURSIVE inject_cells(_, _, _, _, _)
\* the object has the methods of a dict; the datareader's Bar has not
is_dict(row) == "keys" \in DOMAIN row

\* the two nested loops of __inject_and_propagate that install the genesis
\* cells; k counts the (asset, field) pairs done
inject_cells(st, cur, new_bar_data, gen_field_ids, k) ==
    LET nf == Len(gen_field_ids)
        asset_id == new_bar_data.keys[(k \div nf) + 1]
        field_id == gen_field_ids[(k % nf) + 1]
        row == new_bar_data.vals[asset_id]
    IN  IF nf = 0 \/ k >= Len(new_bar_data.keys) * nf \/ st.exc # "none" THEN st
        ELSE IF ~is_dict(row) THEN Raise(st, "TypeError")
        ELSE IF field_id \notin DOMAIN row.vals THEN Raise(st, "KeyError")
        ELSE inject_cells(
                insert_node_in_cur_layer(st, cur, asset_id, field_id,
                                         row.vals[field_id]),
                cur, new_bar_data, gen_field_ids, k + 1)

RECURSIVE propagate_genesis_fields(_, _, _, _, _)
\* `for gen_field_id in gen_field_ids` in __inject_and_propagate
propagate_genesis_fields(st, cur, done, gen_field_ids, i) ==
    IF i > Len(gen_field_ids) \/ st.exc # "none" THEN st
    ELSE propagate_genesis_fields(
            propagate_from_genesis_field(st, cur, done, gen_field_ids[i]),
            cur, done, gen_field_ids, i + 1)

\* an injection whose count of completed bars wraps with the ring index
inject_and_propagate_wrapping(new_bar_data) ==
    LET cur  == cur_bar_index_inc_n(cur_bar_index, 1)
        done == cur
        st0  == [bars  |-> [recent_bars EXCEPT ![cur] = BarLayer],
                 nac   |-> num_assets_completed,
                 exc   |-> "none",
                 trace |-> <<>>,
                 depth |-> 0]
        gen_field_ids == new_bar_data.vals[new_bar_data.keys[1]].keys
    IN  [cur |-> cur, done |-> done,
         st |-> IF Len(new_bar_data.keys) = 0 THEN Raise(st0, "IndexError")
                ELSE propagate_genesis_fields(
                        inject_cells(st0, cur, new_bar_data, gen_field_ids, 0),
                        cur, done, gen_field_ids, 1)]

\* CalcLattice.__inject_and_propagate, from the lattice's current state:
\* [cur, done, st]
inject_and_propagate(new_bar_data) ==
    LET cur  == cur_bar_index_inc_n(cur_bar_index, 1)
        done == num_bars_completed + 1
        st0  == [bars  |-> [recent_bars EXCEPT ![cur] = BarLayer],
                 nac   |-> num_assets_completed,
                 exc   |-> "none",
                 trace |-> <<>>,
                 depth |-> 0]
        gen_field_ids == new_bar_data.vals[new_bar_data.keys[1]].keys
    IN  [cur |-> cur, done |-> done,
         st |-> IF Len(new_bar_data.keys) = 0 THEN Raise(st0, "IndexError")
                ELSE IF ~is_dict(new_bar_data.vals[new_bar_data.keys[1]])
                THEN Raise(st0, "AttributeError")
                ELSE propagate_genesis_fields(
                        inject_cells(st0, cur, new_bar_data, gen_field_ids, 0),
                        cur, done, gen_field_ids, 1)]

\* CalcLattice.new_bar
new_bar(new_bar_data) ==
    /\ num_bars_completed + 1 < MaxBars
    /\ IF cur_bar_index = -1 /\ check_DAG # DAGStatusCodes_OK
       THEN /\ last' = [op |-> "new_bar",
                        raised |-> IF check_DAG = DAGStatusCodes_CIRCULAR
                                   THEN "BadDAGException" ELSE "ValueError"]
            /\ UNCHANGED <<cur_bar_index, num_bars_completed, recent_bars,
                           num_assets_completed, trace>>
       ELSE LET leave(run) ==
                    /\ cur_bar_index' = run.cur
                    /\ num_bars_completed' = run.done
                    /\ recent_bars' = run.st.bars
                    /\ num_assets_completed' =
                          IF run.st.exc = "none" THEN EmptyDict ELSE run.st.nac
                    /\ trace' = run.st.trace
                    /\ last' = [op |-> "new_bar", raised |-> run.st.exc]
            IN  leave(inject_and_propagate(new_bar_data))
    /\ fed' = Append(fed, new_bar_data)
    /\ history' = IF cur_bar_index' = -1 THEN history
                  ELSE Append(history, recent_bars'[cur_bar_index'])
    /\ UNCHANGED <<asset_ids, num_bars_stored, field_ids, window_dep_fields,
                   cross_sectional_fields, field_to_field_op>>

\* CalcLattice.output_bar, on the lattice's current state: [exc, table],
\* table[asset_id][field_id] the value of the DataFrame's cell
output_bar ==
    LET frame(got) ==
            IF got.exc # "none" THEN [exc |-> got.exc, table |-> EmptyDict]
            ELSE IF ~got.layer.is_layer
            THEN [exc |-> "AttributeError", table |-> EmptyDict]
            ELSE IF \E a \in Range(asset_ids) : \E f \in Range(field_ids) :
                        ~HasCell(got.layer, a, f)
            THEN [exc |-> "KeyError", table |-> EmptyDict]
            ELSE [exc |-> "none",
                  table |-> [a \in Range(asset_ids) |->
                               [f \in Range(field_ids) |->
                                  got.layer.bar_data[a][f]]]]
    IN  frame(get_n_bar_ago_data(recent_bars, cur_bar_index,
                                 num_bars_completed, 0))

----------------------------------------------------------------------------
(***************************************************************************)
(* add_field.  A Field is [field_operation, field_id, dependent_field_id,  *)
(* window_len]; an attribute its class does not take is "None" / 0.        *)
(***************************************************************************)
\* append_to_dict, the helper local to add_field
append_to_dict(d, key, val) ==
    Put(d, key, Append(IF key \in DOMAIN d THEN d[key] ELSE <<>>, val))

\* field.field_operation(lattice=self, **field.field_op_input)
FieldOp(field) ==
    [cls |-> field.field_operation, field_id |-> field.field_id,
     dependent_field_id |-> field.dependent_field_id,
     window_len |-> field.window_len]

\* a start test that looks at the count of completed bars, which is still 0
\* after the first bar
execution_begun_by_count == num_bars_completed > 0

\* `self.__cur_bar_index != -1` in add_field
execution_begun == cur_bar_index # -1

\* a duplicate test that only knows the fields that carry an operation
field_id_has_op(field) == field.field_id \in DOMAIN field_to_field_op

\* `field.field_id in self.__field_ids` in add_field
field_id_exists(field) == field.field_id \in Range(field_ids)

\* CalcLattice.add_field
add_field(field) ==
    /\ \/ Len(field_ids) < MaxFields
       \/ execution_begun
       \/ field_id_exists(field)
    /\ IF execution_begun
       THEN /\ last' = [op |-> "add_field", raised |-> "StaticDAGException"]
            /\ UNCHANGED <<field_ids, window_dep_fields, cross_sectional_fields,
                           field_to_field_op>>
       ELSE IF field_id_exists(field)
       THEN /\ last' = [op |-> "add_field", raised |-> "Exception"]
            /\ UNCHANGED <<field_ids, window_dep_fields, cross_sectional_fields,
                           field_to_field_op>>
       ELSE IF ~(\/ IsWindowOp(field.field_operation)
                 \/ IsCrossSectionalOp(field.field_operation)
                 \/ IsInjectionOp(field.field_operation))
       THEN /\ last' = [op |-> "add_field", raised |-> "ValueError"]
            /\ UNCHANGED <<field_ids, window_dep_fields, cross_sectional_fields,
                           field_to_field_op>>
       ELSE LET is_window_op == IsWindowOp(field.field_operation)
                is_cross_sectional_op == IsCrossSectionalOp(field.field_operation)
            IN  /\ field_to_field_op' =
                      IF is_window_op \/ is_cross_sectional_op
                      THEN Put(field_to_field_op, field.field_id, FieldOp(field))
                      ELSE field_to_field_op
                /\ window_dep_fields' =
                      IF is_window_op
                      THEN append_to_dict(window_dep_fields,
                                          field.dependent_field_id, field.field_id)
                      ELSE window_dep_fields
                /\ cross_sectional_fields' =
                      IF ~is_window_op /\ is_cross_sectional_op
                      THEN append_to_dict(cross_sectional_fields,
                                          field.dependent_field_id, field.field_id)
                      ELSE cross_sectional_fields
                /\ field_ids' = Append(field_ids, field.field_id)
                /\ last' = [op |-> "add_field", raised |-> "none"]
    /\ UNCHANGED <<asset_ids, num_bars_stored, cur_bar_index, num_bars_completed,
                   recent_bars, num_assets_completed, trace, fed, history>>

----------------------------------------------------------------------------
(***************************************************************************)
(* Field: the parameter check of the user-facing Field                     *)
(* (src/engine/fields/fields.py, src/engine/fields/field_utils.py).        *)
(*                                                                         *)
(* A params dict is a function from its keys to Python objects.  An object *)
(* is a record: a class carries the code object of its __init__            *)
(* (co_varnames: the arguments, then the local variables; co_argcount;     *)
(* the number of __defaults__), anything else carries its type.            *)
(***************************************************************************)
PROHIBITED_USER_PROVIDED_FIELD_ATTRIBUTES == {"lattice"}

FIELD_OPERATION_KW == "field_operation"

FIELD_ID_KW == "field_id"

DEP_FIELD_ID_KW == "dependent_field_id"

\* a Field that was not constructed has no attributes
NoParams == [key \in {} |-> 0]

\* an instance of a builtin or library type
Object(type) == [isclass |-> FALSE, type |-> type]

\* a class; args and locals are the names __init__ declares, in order
Class(name, is_field_op, args, n_defaults, locals) ==
    [isclass |-> TRUE, type |-> "type", name |-> name,
     is_field_op |-> is_field_op,
     co_varnames |-> args \o locals, co_argcount |-> Len(args),
     n_defaults |-> n_defaults]

\* FieldOp.__init__(self, dependent_field_id, field_id, lattice)
FieldOpArgs == <<"self", "dependent_field_id", "field_id", "lattice">>

\* InjectionOp.__init__(self, field_id)
InjectionOpArgs == <<"self", "field_id">>

\* WindowOp.__init__(self, window_len, dependent_field_id, field_id, lattice)
WindowOpArgs == <<"self", "window_len", "dependent_field_id", "field_id", "lattice">>

\* the field operations of fields.py; SMA and Z_Score inherit __init__
LibraryOps ==
    { Class("FieldOp", TRUE, FieldOpArgs, 0, <<>>),
      Class("InjectionOp", TRUE, InjectionOpArgs, 0, <<>>),
      Class("WindowOp", TRUE, WindowOpArgs, 0, <<>>),
      Class("CrossSectionalOp", TRUE, FieldOpArgs, 0, <<>>),
      Class("SMA", TRUE, WindowOpArgs, 0, <<>>),
      Class("Z_Score", TRUE, FieldOpArgs, 0, <<>>) }

\* the trailing arguments with defaults a subclass of SMA declares
OptionalArgs == { <<>>, <<"other1">>, <<"other1", "other2">> }

\* the local variables the __init__ of a subclass of SMA binds
LocalVariables == { <<>>, <<"other">> }

\* class TestSMA(SMA) of clean_params_test.py: a user's subclass whose
\* __init__ adds arguments with defaults and may bind local variables
TestSMA(optional, locals) ==
    Class("TestSMA", TRUE, WindowOpArgs \o optional, Len(optional), locals)

UserOps == { TestSMA(optional, locals) :
                 optional \in OptionalArgs, locals \in LocalVariables }

\* inspect.isclass(x)
isclass(x) == x.isclass

\* issubclass(x, FieldOp), x a class
issubclass_FieldOp(x) == x.is_field_op

\* isinstance(x, FieldId)
isinstance_FieldId(x) == x.type = "FieldId"

\* field_op.__init__.__code__.co_varnames minus self and lattice
get_field_op_user_args(field_op) ==
    LET unnecessary_user_args ==
            {"self"} \cup PROHIBITED_USER_PROVIDED_FIELD_ATTRIBUTES
    IN  { x \in Range(field_op.co_varnames) : x \notin unnecessary_user_args }

\* co_varnames[-n_default_args:], empty when __init__ has no defaults
get_field_op_user_optional_args(field_op) ==
    LET n_default_args == field_op.n_defaults
        all_args == field_op.co_varnames
    IN  IF n_default_args > 0
        THEN { all_args[i] : i \in { j \in DOMAIN all_args :
                                       j > Len(all_args) - n_default_args } }
        ELSE {}

get_field_op_user_required_args(field_op) ==
    get_field_op_user_args(field_op) \ get_field_op_user_optional_args(field_op)

\* Field.__check_params: the exception it raises, "none" when it returns
check_params(unchecked) ==
    LET keys == DOMAIN unchecked
        required(field_operation) == get_field_op_user_required_args(field_operation)
        optional(field_operation) == get_field_op_user_optional_args(field_operation)
        bad_required(field_operation) ==
            \E attribute \in required(field_operation) :
                \/ attribute \notin keys
                \/ /\ attribute = FIELD_ID_KW
                   /\ ~isinstance_FieldId(unchecked[FIELD_ID_KW])
                \/ /\ attribute = DEP_FIELD_ID_KW
                   /\ ~isinstance_FieldId(unchecked[DEP_FIELD_ID_KW])
        unverified_params(field_operation) ==
            (keys \ {FIELD_OPERATION_KW}) \ required(field_operation)
        checked_against(field_operation) ==
            IF ~isclass(field_operation) THEN "ValueError"
            ELSE IF ~issubclass_FieldOp(field_operation) THEN "ValueError"
            ELSE IF bad_required(field_operation) THEN "ValueError"
            ELSE IF \E user_param \in unverified_params(field_operation) :
                        user_param \notin optional(field_operation)
                 THEN "ValueError"
            ELSE "none"
    IN  IF \E prohibited \in PROHIBITED_USER_PROVIDED_FIELD_ATTRIBUTES :
               prohibited \in keys
        THEN "ValueError"
        ELSE IF FIELD_OPERATION_KW \notin keys THEN "ValueError"
        ELSE checked_against(unchecked[FIELD_OPERATION_KW])

\* Field.__init__
Field_init(unchecked) ==
    LET build(raised) ==
            /\ last' = [op |-> "Field", raised |-> raised]
            /\ field_op_input' =
                   IF raised = "none"
                   THEN [key \in (DOMAIN unchecked) \ {FIELD_OPERATION_KW}
                             |-> unchecked[key]]
                   ELSE NoParams
    IN  /\ params' = unchecked
        /\ build(check_params(unchecked))

----------------------------------------------------------------------------
(***************************************************************************)
(* The lattices and the calls the model explores.                          *)
(***************************************************************************)
Assets == {"AAPL", "MSFT", "TSLA"}

\* the orders in which a set of three assets can iterate
AssetOrders == {<<"AAPL", "MSFT", "TSLA">>, <<"TSLA", "MSFT", "AAPL">>}

InjectionField(field_id) ==
    [field_operation |-> "InjectionOp", field_id |-> field_id,
     dependent_field_id |-> "None", window_len |-> 0]

SMAField(field_id, dependent_field_id, window_len) ==
    [field_operation |-> "SMA", field_id |-> field_id,
     dependent_field_id |-> dependent_field_id, window_len |-> window_len]

ZScoreField(field_id, dependent_field_id) ==
    [field_operation |-> "Z_Score", field_id |-> field_id,
     dependent_field_id |-> dependent_field_id, window_len |-> 0]

\* the Field objects a driver hands to add_field: the chain
\* Open -> F1 (SMA 2) -> F2 (Z_Score) -> F3 (SMA 3) of the module's own
\* example, other declarations under the same names, and a field that
\* depends on itself
Fields ==
    { InjectionField("Open"),
      SMAField("F1", "Open", 2),
      ZScoreField("F1", "Open"),
      SMAField("F1", "Open", 3),
      SMAField("F2", "Open", 1),
      ZScoreField("F2", "F1"),
      SMAField("F3", "F2", 3),
      SMAField("F3", "F3", 1) }

\* a bar: every asset carries the one genesis field Open
Bar(aapl, msft, tsla) ==
    LET open == [AAPL |-> aapl, MSFT |-> msft, TSLA |-> tsla]
    IN  [keys |-> <<"AAPL", "MSFT", "TSLA">>,
         vals |-> [a \in Assets |->
                     [keys |-> <<"Open">>,
                      vals |-> [f \in {"Open"} |-> Float(open[a])]]]]

\* the bars a driver hands to new_bar
Bars == { Bar(1, 2, 3), Bar(0, 1, 4), Bar(-1, -1, -4) }

\* the ring capacities a lattice is built with
Capacities == {1, 2}

\* CalcLattice.__init__
Init ==
    /\ asset_ids \in AssetOrders
    /\ num_bars_stored \in Capacities
    /\ field_ids = <<>>
    /\ cur_bar_index = -1
    /\ num_bars_completed = -1
    /\ recent_bars = [i \in 0..(num_bars_stored - 1) |-> NoLayer]
    /\ num_assets_completed = EmptyDict
    /\ window_dep_fields = EmptyDict
    /\ cross_sectional_fields = EmptyDict
    /\ field_to_field_op = EmptyDict
    /\ last = [op |-> "init", raised |-> "none"]
    /\ trace = <<>>
    /\ fed = <<>>
    /\ history = <<>>
    /\ params = NoParams
    /\ field_op_input = NoParams
    /\ backtest_asset_ids = {}
    /\ datareaders = <<>>
    /\ twin = EmptyDict
    /\ NoRun

AddField ==
    /\ \E field \in Fields : add_field(field)
    /\ UNCHANGED <<field_vars, backtest_vars, pair_vars, run_vars>>

NewBar ==
    /\ \E new_bar_data \in Bars : new_bar(new_bar_data)
    /\ UNCHANGED <<field_vars, backtest_vars, pair_vars, run_vars>>

Next == AddField \/ NewBar

Spec == Init /\ [][Next]_vars

----------------------------------------------------------------------------
(***************************************************************************)
(* Lattices over a universe of one asset and of three: with one asset a    *)
(* Window field on a derived field finds its upstream cell in every row    *)
(* of the layer.                                                           *)
(***************************************************************************)
Universes == { <<"AAPL">>, <<"AAPL", "MSFT", "TSLA">> }

\* a bar for the universe of the single asset AAPL
SoloBar(aapl) ==
    [keys |-> <<"AAPL">>,
     vals |-> [a \in {"AAPL"} |->
                 [keys |-> <<"Open">>,
                  vals |-> [f \in {"Open"} |-> Float(aapl)]]]]

SoloBars == { SoloBar(1), SoloBar(0), SoloBar(-1) }

\* the catalogue, and a Z_Score on a Window field that has a Window
\* dependant of its own
UniverseFields == Fields \cup { ZScoreField("F1", "F2") }

\* CalcLattice.__init__
UniverseInit ==
    /\ asset_ids \in Universes
    /\ num_bars_stored \in Capacities
    /\ field_ids = <<>>
    /\ cur_bar_index = -1
    /\ num_bars_completed = -1
    /\ recent_bars = [i \in 0..(num_bars_stored - 1) |-> NoLayer]
    /\ num_assets_completed = EmptyDict
    /\ window_dep_fields = EmptyDict
    /\ cross_sectional_fields = EmptyDict
    /\ field_to_field_op = EmptyDict
    /\ last = [op |-> "init", raised |-> "none"]
    /\ trace = <<>>
    /\ fed = <<>>
    /\ history = <<>>
    /\ params = NoParams
    /\ field_op_input = NoParams
    /\ backtest_asset_ids = {}
    /\ datareaders = <<>>
    /\ twin = EmptyDict
    /\ NoRun

UniverseAddField ==
    /\ \E field \in UniverseFields : add_field(field)
    /\ UNCHANGED <<field_vars, backtest_vars, pair_vars, run_vars>>

\* the driver feeds a bar that carries the assets of the lattice
UniverseNewBar ==
    /\ \E new_bar_data \in Bars \cup SoloBars :
          /\ Range(new_bar_data.keys) = Range(asset_ids)
          /\ new_bar(new_bar_data)
    /\ UNCHANGED <<field_vars, backtest_vars, pair_vars, run_vars>>

UniverseNext == UniverseAddField \/ UniverseNewBar

UniverseSpec == UniverseInit /\ [][UniverseNext]_vars

----------------------------------------------------------------------------
(***************************************************************************)
(* What add_field and new_bar take without looking: a derived field that   *)
(* carries the name of a genesis field, and a bar whose assets do not      *)
(* carry the same fields.                                                  *)
(***************************************************************************)
\* derived fields named Open, which every bar injects, next to plain ones
\* and to a window of negative length
ShadowingFields ==
    { InjectionField("Open"),
      SMAField("Open", "Open", 1),
      ZScoreField("Open", "Open"),
      SMAField("F1", "Open", 1),
      SMAField("F1", "Open", -1),
      ZScoreField("F2", "Open") }

\* the sub-map of one asset: every field of field_ids_ with the same value
Row(field_ids_, value) ==
    [keys |-> field_ids_, vals |-> [f \in Range(field_ids_) |-> Float(value)]]

RaggedBar(aapl, msft, tsla) ==
    [keys |-> <<"AAPL", "MSFT", "TSLA">>,
     vals |-> [AAPL |-> aapl, MSFT |-> msft, TSLA |-> tsla]]

\* a bar as the engine assumes it, one whose second asset lacks Open, one
\* whose second asset carries a field of its own, and one whose second asset
\* lacks the second field of the first
RaggedBars ==
    { RaggedBar(Row(<<"Open">>, 1), Row(<<"Open">>, 2), Row(<<"Open">>, 3)),
      RaggedBar(Row(<<"Open">>, 1), Row(<<"Close">>, 2), Row(<<"Open">>, 3)),
      RaggedBar(Row(<<"Open">>, 1), Row(<<"Open", "Close">>, 2), Row(<<"Open">>, 3)),
      RaggedBar(Row(<<"Open", "Close">>, 1), Row(<<"Open">>, 2),
                Row(<<"Open", "Close">>, 3)) }

\* CalcLattice.__init__
UncheckedInit ==
    /\ asset_ids = <<"AAPL", "MSFT", "TSLA">>
    /\ num_bars_stored \in Capacities
    /\ field_ids = <<>>
    /\ cur_bar_index = -1
    /\ num_bars_completed = -1
    /\ recent_bars = [i \in 0..(num_bars_stored - 1) |-> NoLayer]
    /\ num_assets_completed = EmptyDict
    /\ window_dep_fields = EmptyDict
    /\ cross_sectional_fields = EmptyDict
    /\ field_to_field_op = EmptyDict
    /\ last = [op |-> "init", raised |-> "none"]
    /\ trace = <<>>
    /\ fed = <<>>
    /\ history = <<>>
    /\ params = NoParams
    /\ field_op_input = NoParams
    /\ backtest_asset_ids = {}
    /\ datareaders = <<>>
    /\ twin = EmptyDict
    /\ NoRun

UncheckedAddField ==
    /\ \E field \in ShadowingFields : add_field(field)
    /\ UNCHANGED <<field_vars, backtest_vars, pair_vars, run_vars>>

UncheckedNewBar ==
    /\ \E new_bar_data \in RaggedBars : new_bar(new_bar_data)
    /\ UNCHANGED <<field_vars, backtest_vars, pair_vars, run_vars>>

UncheckedNext == UncheckedAddField \/ UncheckedNewBar

UncheckedSpec == UncheckedInit /\ [][UncheckedNext]_vars

----------------------------------------------------------------------------
(***************************************************************************)
(* Two lattices over the same assets, given the same fields in orders of   *)
(* their own and then the same bars, call by call.  The calls go to the    *)
(* lattice held in the lattice variables; the other one waits in twin.     *)
(***************************************************************************)
\* the CalcLattice the calls go to, as one value
Lattice ==
    [asset_ids |-> asset_ids, num_bars_stored |-> num_bars_stored,
     field_ids |-> field_ids, window_dep_fields |-> window_dep_fields,
     cross_sectional_fields |-> cross_sectional_fields,
     field_to_field_op |-> field_to_field_op, cur_bar_index |-> cur_bar_index,
     num_bars_completed |-> num_bars_completed, recent_bars |-> recent_bars,
     num_assets_completed |-> num_assets_completed, last |-> last,
     trace |-> trace, fed |-> fed, history |-> history]

\* CalcLattice(num_bars_stored_, asset_ids_)
NewLattice(num_bars_stored_, asset_ids_) ==
    [asset_ids |-> asset_ids_, num_bars_stored |-> num_bars_stored_,
     field_ids |-> <<>>, window_dep_fields |-> EmptyDict,
     cross_sectional_fields |-> EmptyDict, field_to_field_op |-> EmptyDict,
     cur_bar_index |-> -1, num_bars_completed |-> -1,
     recent_bars |-> [i \in 0..(num_bars_stored_ - 1) |-> NoLayer],
     num_assets_completed |-> EmptyDict,
     last |-> [op |-> "init", raised |-> "none"],
     trace |-> <<>>, fed |-> <<>>, history |-> <<>>]

\* two one-bar averages of Open, each with a Z_Score of its own
PairFields ==
    { SMAField("F1", "Open", 1), ZScoreField("F2", "F1"),
      SMAField("F3", "Open", 1), ZScoreField("F4", "F3") }

\* a bar with a zero in it, and one without
PairBars == { Bar(0, 1, 4), Bar(1, 2, 3) }

\* both lattices hold the same declarations, whatever the order they came in
SameRegistry ==
    /\ Range(field_ids) = Range(twin.field_ids)
    /\ field_to_field_op = twin.field_to_field_op

PairInit ==
    /\ asset_ids = <<"AAPL", "MSFT", "TSLA">>
    /\ num_bars_stored \in Capacities
    /\ field_ids = <<>>
    /\ cur_bar_index = -1
    /\ num_bars_completed = -1
    /\ recent_bars = [i \in 0..(num_bars_stored - 1) |-> NoLayer]
    /\ num_assets_completed = EmptyDict
    /\ window_dep_fields = EmptyDict
    /\ cross_sectional_fields = EmptyDict
    /\ field_to_field_op = EmptyDict
    /\ last = [op |-> "init", raised |-> "none"]
    /\ trace = <<>>
    /\ fed = <<>>
    /\ history = <<>>
    /\ params = NoParams
    /\ field_op_input = NoParams
    /\ backtest_asset_ids = {}
    /\ datareaders = <<>>
    /\ \E order \in AssetOrders : twin = NewLattice(num_bars_stored, order)
    /\ NoRun

\* a field is registered with the lattice in turn, before any bar and each
\* field once; the second lattice is given the fields of the first
PairAddField ==
    /\ cur_bar_index = -1 /\ twin.cur_bar_index = -1
    /\ \E field \in PairFields :
          /\ field.field_id \notin Range(field_ids)
          /\ twin.field_ids = <<>> \/ field.field_id \in Range(twin.field_ids)
          /\ add_field(field)
    /\ UNCHANGED <<field_vars, backtest_vars, pair_vars, run_vars>>

\* a bar is handed to the lattice in turn: a new bar when both lattices have
\* seen the same bars, the bar the other one was given last when it is behind
PairNewBar ==
    /\ SameRegistry
    /\ \E new_bar_data \in PairBars :
          /\ \/ Len(fed) = Len(twin.fed)
             \/ /\ Len(fed) + 1 = Len(twin.fed)
                /\ new_bar_data = twin.fed[Len(twin.fed)]
          /\ new_bar(new_bar_data)
    /\ UNCHANGED <<field_vars, backtest_vars, pair_vars, run_vars>>

\* the driver turns to the other lattice: once to register its fields, and
\* after each bar that the other lattice has not been given yet
Switch ==
    /\ \/ /\ cur_bar_index = -1 /\ field_ids # <<>>
          /\ twin.cur_bar_index = -1 /\ twin.field_ids = <<>>
       \/ Len(fed) = Len(twin.fed) + 1
    /\ twin' = Lattice
    /\ asset_ids' = twin.asset_ids
    /\ num_bars_stored' = twin.num_bars_stored
    /\ field_ids' = twin.field_ids
    /\ window_dep_fields' = twin.window_dep_fields
    /\ cross_sectional_fields' = twin.cross_sectional_fields
    /\ field_to_field_op' = twin.field_to_field_op
    /\ cur_bar_index' = twin.cur_bar_index
    /\ num_bars_completed' = twin.num_bars_completed
    /\ recent_bars' = twin.recent_bars
    /\ num_assets_completed' = twin.num_assets_completed
    /\ last' = twin.last
    /\ trace' = twin.trace
    /\ fed' = twin.fed
    /\ history' = twin.history
    /\ UNCHANGED <<field_vars, backtest_vars, run_vars>>

PairNext == PairAddField \/ PairNewBar \/ Switch

PairSpec == PairInit /\ [][PairNext]_vars

----------------------------------------------------------------------------
(***************************************************************************)
(* The Field constructions the model explores.                             *)
(***************************************************************************)
\* no CalcLattice has been built
NoLattice ==
    /\ asset_ids = <<>>
    /\ num_bars_stored = 0
    /\ field_ids = <<>>
    /\ cur_bar_index = -1
    /\ num_bars_completed = -1
    /\ recent_bars = EmptyDict
    /\ num_assets_completed = EmptyDict
    /\ window_dep_fields = EmptyDict
    /\ cross_sectional_fields = EmptyDict
    /\ field_to_field_op = EmptyDict
    /\ trace = <<>>
    /\ fed = <<>>
    /\ history = <<>>

\* marks a key the user left out of params
Absent == Object("absent")

\* the values a user passes as field_operation: a field operation, a
\* string, or a class that does not derive from FieldOp
FieldOperations ==
    LibraryOps \cup UserOps
        \cup { Object("str"), Class("FieldId", FALSE, <<"self", "field_id">>, 0, <<>>) }

\* the values a user passes as field_id and dependent_field_id
Ids == { Object("FieldId"), Object("str") }

\* for every key a user may write, the value given or Absent
ParamChoices ==
    [ lattice : { Absent, Object("str") },
      field_operation : FieldOperations \cup { Absent },
      field_id : Ids \cup { Absent },
      dependent_field_id : Ids \cup { Absent },
      window_len : { Absent, Object("int") },
      other1 : { Absent, Object("int") },
      other2 : { Absent, Object("int") },
      otherM : { Absent, Object("int") },
      other : { Absent, Object("int") } ]

\* the params dict of a choice
Dict(choice) ==
    [key \in { k \in DOMAIN choice : choice[k] # Absent } |-> choice[key]]

ParamDicts == { Dict(choice) : choice \in ParamChoices }

FieldInit ==
    /\ NoLattice
    /\ last = [op |-> "init", raised |-> "none"]
    /\ params = NoParams
    /\ field_op_input = NoParams
    /\ backtest_asset_ids = {}
    /\ datareaders = <<>>
    /\ twin = EmptyDict
    /\ NoRun

\* a Field is constructed once
NewField ==
    /\ last.op = "init"
    /\ \E unchecked \in ParamDicts : Field_init(unchecked)
    /\ UNCHANGED <<lattice_vars, backtest_vars, pair_vars, run_vars>>

FieldNext == NewField

FieldSpec == FieldInit /\ [][FieldNext]_vars

----------------------------------------------------------------------------
(***************************************************************************)
(* Backtest: the data readers of a backtest (src/strategy/strategy.py).    *)
(***************************************************************************)
\* datareader.DataReader(asset_id, data_paths, reader_options)
DataReader(asset_id, paths) ==
    [asset_id |-> asset_id, data_paths |-> paths]

\* the readers a user builds: two sources for each asset
DataReaders ==
    { DataReader(asset_id, paths) :
          asset_id \in Assets, paths \in {"2019", "2020"} }

\* Backtest.add_data
add_data(datareader) ==
    IF datareader.asset_id \in backtest_asset_ids
    THEN /\ last' = [op |-> "add_data", raised |-> "ValueError"]
         /\ UNCHANGED <<backtest_asset_ids, datareaders>>
    ELSE /\ datareaders' = Append(datareaders, datareader)
         /\ last' = [op |-> "add_data", raised |-> "none"]
         /\ UNCHANGED backtest_asset_ids

\* Backtest.__init__
BacktestInit ==
    /\ NoLattice
    /\ last = [op |-> "init", raised |-> "none"]
    /\ params = NoParams
    /\ field_op_input = NoParams
    /\ backtest_asset_ids = {}
    /\ datareaders = <<>>
    /\ twin = EmptyDict
    /\ NoRun

AddData ==
    /\ Len(datareaders) < MaxReaders
    /\ \E datareader \in DataReaders : add_data(datareader)
    /\ UNCHANGED <<lattice_vars, field_vars, pair_vars, run_vars>>

BacktestNext == AddData

BacktestSpec == BacktestInit /\ [][BacktestNext]_vars

----------------------------------------------------------------------------
(***************************************************************************)
(* EventQueue.  An event is [cls, time]; series holds the queued events in *)
(* index order, the index label of an event being its time.               *)
(***************************************************************************)
EventClasses == {"NewBarEvent", "FieldProcessingCompletedEvent", "OrderEvent"}

\* EventBase(time) and its subclasses
EventBase(cls, time) == [cls |-> cls, time |-> time]

NoEvent == EventBase("None", 0)

\* `self.series[event.time] = event`: the entry under that label is
\* overwritten when there is one, else the series is enlarged at its end
set_item(series, event) ==
    IF \E i \in DOMAIN series : series[i].time = event.time
    THEN [i \in DOMAIN series |->
            IF series[i].time = event.time THEN event ELSE series[i]]
    ELSE Append(series, event)

RECURSIVE SortByLabel(_)
SortByLabel(series) ==
    IF series = <<>> THEN <<>>
    ELSE LET i == CHOOSE i \in DOMAIN series :
                    \A j \in DOMAIN series : series[i].time <= series[j].time
             rest == [k \in 1..(Len(series) - 1) |->
                        IF k < i THEN series[k] ELSE series[k + 1]]
         IN  <<series[i]>> \o SortByLabel(rest)

\* a sort that leaves the series in insertion order
keep_index(series) == series

\* Series.sort_index(inplace=True, kind='heapsort')
sort_index(series) == SortByLabel(series)

\* EventQueue.empty
empty(series) == Len(series) = 0

\* EventQueue.peek: [exc, event]
peek(series) ==
    IF Len(series) = 0 THEN [exc |-> "IndexError", event |-> NoEvent]
    ELSE [exc |-> "none", event |-> series[1]]

\* EventQueue.pop: [exc, event, series]
pop(series) ==
    IF empty(series)
    THEN [exc |-> "IndexError", event |-> NoEvent, series |-> series]
    ELSE [exc |-> "none", event |-> series[1],
          series |-> [k \in 1..(Len(series) - 1) |-> series[k + 1]]]

\* EventQueue.push
push(series, event) == sort_index(set_item(series, event))

\* EventQueue()
QueueInit ==
    /\ NoLattice
    /\ last = [op |-> "init", raised |-> "none"]
    /\ params = NoParams
    /\ field_op_input = NoParams
    /\ backtest_asset_ids = {}
    /\ datareaders = <<>>
    /\ twin = EmptyDict
    /\ NoRun

Push ==
    /\ \E cls \in EventClasses : \E time \in 0..MaxTime :
          /\ events' = push(events, EventBase(cls, time))
          /\ last' = [op |-> "push", raised |-> "none",
                      event |-> EventBase(cls, time)]
    /\ UNCHANGED <<lattice_vars, field_vars, backtest_vars, pair_vars, reader_vars,
                   strategy_vars>>

Pop ==
    /\ LET leave(popped) ==
              /\ events' = popped.series
              /\ last' = [op |-> "pop", raised |-> popped.exc,
                          event |-> popped.event]
       IN  leave(pop(events))
    /\ UNCHANGED <<lattice_vars, field_vars, backtest_vars, pair_vars, reader_vars,
                   strategy_vars>>

QueueNext == Push \/ Pop

QueueSpec == QueueInit /\ [][QueueNext]_vars

----------------------------------------------------------------------------
(***************************************************************************)
(* DataReader.  A reader in the middle of a call is the record             *)
(* [data_paths, cur_file_index, cur_data_index, cur_data,                  *)
(* genesis_field_ids, exc]; a row of a file is [file, line].               *)
(***************************************************************************)
Paths == {"a.csv", "b.csv", "c.csv", "empty.csv"}

Line(path, k) == [file |-> path, line |-> k]

NoLine == Line("None", 0)

\* pd.read_csv(path, **read_csv_options): the files on disk
read_csv(path) ==
    CASE path = "a.csv" -> DataFrame({"open"}, <<Line(path, 1), Line(path, 2)>>)
      [] path = "b.csv" -> DataFrame({"open"}, <<Line(path, 1)>>)
      [] path = "c.csv" -> DataFrame({"close"}, <<Line(path, 1)>>)
      [] OTHER          -> DataFrame({"open"}, <<>>)

\* DataReaderOptions.field_name_to_field_id, a dict
field_name_to_field_id == [open |-> "Open", close |-> "Close"]

None == [is_none |-> TRUE, ids |-> {}]

\* DataReader.__convert_cols_to_field_ids
convert_cols_to_field_ids(r) ==
    LET columns == { field_name_to_field_id[col] : col \in r.cur_data.columns }
        converted == [r EXCEPT !.cur_data.columns = columns]
    IN  IF r.genesis_field_ids.is_none
        THEN [converted EXCEPT !.genesis_field_ids =
                                  [is_none |-> FALSE, ids |-> columns]]
        ELSE IF r.genesis_field_ids.ids # columns
        THEN [converted EXCEPT !.exc = "ValueError"]
        ELSE converted

\* DataReader.__load_next_file_path
load_next_file_path(r) ==
    LET loaded == [r EXCEPT !.cur_file_index = @ + 1,
                            !.cur_data = read_csv(r.data_paths[r.cur_file_index + 2])]
    IN  IF Len(loaded.cur_data.rows) = 0
        THEN [loaded EXCEPT !.exc = "ValueError"]
        ELSE convert_cols_to_field_ids(loaded)

\* DataReader.__more_data_files_exist
more_data_files_exist(r) == (r.cur_file_index + 1) < Len(r.data_paths)

\* DataFrame.iloc[i]: [exc, value]; a negative i counts from the end
iloc(rows, i) ==
    IF 0 <= i /\ i < Len(rows) THEN [exc |-> "none", value |-> rows[i + 1]]
    ELSE IF i < 0 /\ -Len(rows) <= i
    THEN [exc |-> "none", value |-> rows[Len(rows) + i + 1]]
    ELSE [exc |-> "IndexError", value |-> NoLine]

\* `raise NoMoreDataAvailableException()`: the class takes an asset_id, so
\* the call that builds the exception raises TypeError
raise_NoMoreDataAvailableException == "TypeError"

\* DataReader.get_cur_bar_pd: [reader, value]
get_cur_bar_pd(r) ==
    LET restart(loaded) ==
            IF loaded.exc # "none" THEN loaded
            ELSE [loaded EXCEPT !.cur_data_index = 0]
        ready ==
            IF r.cur_data_index >= Len(r.cur_data.rows)
            THEN IF more_data_files_exist(r)
                 THEN restart(load_next_file_path(r))
                 ELSE [r EXCEPT !.exc = raise_NoMoreDataAvailableException]
            ELSE r
        row(got) ==
            [reader |-> [ready EXCEPT !.exc = got.exc], value |-> got.value]
    IN  IF ready.exc # "none" THEN [reader |-> ready, value |-> NoLine]
        ELSE row(iloc(ready.cur_data.rows, ready.cur_data_index))

\* DataReader.get_next_bar_pd: [reader, value]
get_next_bar_pd(r) == get_cur_bar_pd([r EXCEPT !.cur_data_index = @ + 1])

\* DataReader.get_cur_bar: the Bar of the row
get_cur_bar(r) == get_cur_bar_pd(r)

\* DataReader.get_next_bar: the Bar of the row
get_next_bar(r) == get_next_bar_pd(r)

\* DataReader.__init__: the reader, or exc when the constructor raised
DataReader_init(paths) ==
    IF Len(paths) = 0
    THEN [data_paths |-> paths, cur_file_index |-> -1, cur_data_index |-> -1,
          cur_data |-> DataFrame({}, <<>>), genesis_field_ids |-> None,
          exc |-> "ValueError"]
    ELSE load_next_file_path(
            [data_paths |-> paths, cur_file_index |-> -1, cur_data_index |-> -1,
             cur_data |-> DataFrame({}, <<>>), genesis_field_ids |-> None,
             exc |-> "none"])

\* the reader the calls go to, as one value
Reader ==
    [data_paths |-> data_paths, cur_file_index |-> cur_file_index,
     cur_data_index |-> cur_data_index, cur_data |-> cur_data,
     genesis_field_ids |-> genesis_field_ids, exc |-> "none"]

\* the lists of files a reader is built over
DataPathLists == UNION { [1..n -> Paths] : n \in 0..MaxPaths }

\* a DataReader whose constructor returned
ReaderInit ==
    /\ NoLattice
    /\ last = [op |-> "init", raised |-> "none"]
    /\ params = NoParams
    /\ field_op_input = NoParams
    /\ backtest_asset_ids = {}
    /\ datareaders = <<>>
    /\ twin = EmptyDict
    /\ events = <<>>
    /\ NoStrategy
    /\ returned = <<>>
    /\ \E paths \in DataPathLists :
          LET built(r) ==
                /\ r.exc = "none"
                /\ data_paths = r.data_paths
                /\ cur_file_index = r.cur_file_index
                /\ cur_data_index = r.cur_data_index
                /\ cur_data = r.cur_data
                /\ genesis_field_ids = r.genesis_field_ids
          IN  built(DataReader_init(paths))

\* the call has left the reader as `reader`
Left(reader) ==
    /\ cur_file_index' = reader.cur_file_index
    /\ cur_data_index' = reader.cur_data_index
    /\ cur_data' = reader.cur_data
    /\ genesis_field_ids' = reader.genesis_field_ids
    /\ UNCHANGED data_paths

GetNextBar ==
    /\ cur_data_index < MaxIndex
    /\ LET leave(out) ==
              /\ Left(out.reader)
              /\ returned' = IF out.reader.exc = "none"
                             THEN Append(returned, out.value) ELSE returned
              /\ last' = [op |-> "get_next_bar", raised |-> out.reader.exc,
                          value |-> out.value]
       IN  leave(get_next_bar(Reader))
    /\ UNCHANGED <<lattice_vars, field_vars, backtest_vars, pair_vars, events,
                   strategy_vars>>

GetCurBar ==
    /\ LET leave(out) ==
              /\ Left(out.reader)
              /\ last' = [op |-> "get_cur_bar", raised |-> out.reader.exc,
                          value |-> out.value]
       IN  leave(get_cur_bar(Reader))
    /\ UNCHANGED <<lattice_vars, field_vars, backtest_vars, pair_vars, events,
                   returned, strategy_vars>>

ReaderNext == GetNextBar \/ GetCurBar

ReaderSpec == ReaderInit /\ [][ReaderNext]_vars

----------------------------------------------------------------------------
(***************************************************************************)
(* Backtest.run (src/strategy/strategy.py).  Times are whole numbers of    *)
(* ticks.  An event carries, next to the attributes its class has, `bar`:  *)
(* the index of the bar whose NewBarEvent it is or came from.  journal     *)
(* holds one entry for every event __process_event was handed:             *)
(* [event, next_bar_start, raised].                                        *)
(***************************************************************************)
\* BacktestOptions(barsize, open_delay_seconds, num_bars_to_store,
\* allotted_computation_time); 0 stands for an allotted time left at None
BacktestOptions(barsize, open_delay_seconds, num_bars_to_store, allotted_computation_time) ==
    [barsize |-> barsize, open_delay_seconds |-> open_delay_seconds,
     num_bars_to_store |-> num_bars_to_store,
     allotted_computation_time |->
        IF allotted_computation_time # 0 THEN allotted_computation_time
        ELSE barsize]

\* the options a backtest is built with: bars of two ticks
OptionChoices ==
    { BacktestOptions(2, open_delay_seconds, 2, 0) :
          open_delay_seconds \in 0..MaxTime }

\* the end times a backtest is built with: room for 1..MaxBars bars
EndTimes == { 2 * n : n \in 1..MaxBars }

\* NewBarEvent(time, genesis_data)
NewBarEvent(time, genesis_data, bar) ==
    [cls |-> "NewBarEvent", time |-> time, genesis_data |-> genesis_data,
     bar |-> bar]

\* FieldProcessingCompletedEvent(time)
FieldProcessingCompletedEvent(time, bar) ==
    [cls |-> "FieldProcessingCompletedEvent", time |-> time, bar |-> bar]

\* datareader.DataReader(asset_id, data_paths, reader_options), built
FileReader(asset_id, paths) ==
    [asset_id |-> asset_id, cls |-> "DataReader"] @@ DataReader_init(paths)

\* a DataReaderBase of the user whose get_next_bar hands out, one by one,
\* the dicts of `rows`
DictReader(asset_id, rows) ==
    [asset_id |-> asset_id, cls |-> "DictReader", rows |-> rows,
     cur_data_index |-> -1, exc |-> "none"]

\* the readers a user adds before run
RunReaders ==
    { FileReader("AAPL", <<"a.csv">>),
      DictReader("AAPL", <<Row(<<"Open">>, 1), Row(<<"Open">>, 2)>>),
      DictReader("MSFT", <<Row(<<"Open">>, 3)>>) }

\* the fields a user adds before run
RunFields == { InjectionField("Open"), SMAField("F1", "Open", 1) }

\* datareader.get_next_bar(): [reader, value]
reader_get_next_bar(r) ==
    IF r.cls = "DataReader" THEN get_next_bar(r)
    ELSE IF r.cur_data_index + 1 >= Len(r.rows)
    THEN [reader |-> [r EXCEPT !.exc = "StopIteration"], value |-> NoLine]
    ELSE [reader |-> [r EXCEPT !.cur_data_index = @ + 1],
          value |-> r.rows[r.cur_data_index + 2]]

\* `d[key] = val` on a dict that remembers the order of its keys
dict_set(d, key, val) ==
    [keys |-> IF key \in Range(d.keys) THEN d.keys ELSE Append(d.keys, key),
     vals |-> Put(d.vals, key, val)]

RECURSIVE load_readers(_, _, _, _)
\* `for datareader in self.__datareaders` of __load_genesis_data, from the
\* i-th reader on: [readers, num_failed_bar_loads, data]
load_readers(readers, i, num_failed_bar_loads, data) ==
    IF i > Len(readers)
    THEN [readers |-> readers, num_failed_bar_loads |-> num_failed_bar_loads,
          data |-> data]
    ELSE LET got == reader_get_next_bar(readers[i])
             kept == [readers EXCEPT ![i] = [got.reader EXCEPT !.exc = "none"]]
         IN  IF got.reader.exc # "none"
             THEN load_readers(kept, i + 1, num_failed_bar_loads + 1, data)
             ELSE load_readers(kept, i + 1, num_failed_bar_loads,
                               dict_set(data, readers[i].asset_id, got.value))

\* Backtest.__load_genesis_data: [exc, readers, all_loaded, data]; the
\* proportion 1 - failed/len is 1.0 exactly when no load failed
load_genesis_data ==
    LET loaded == load_readers(datareaders, 1, 0,
                               [keys |-> <<>>, vals |-> EmptyDict])
    IN  [exc |-> IF Len(datareaders) = 0 THEN "ZeroDivisionError" ELSE "none",
         readers |-> loaded.readers,
         all_loaded |-> loaded.num_failed_bar_loads = 0,
         data |-> loaded.data]

\* Backtest.__get_cur_bar_start_time
get_cur_bar_start_time(index) == start_time + index * options.barsize

\* Backtest.__get_next_bar_start_time
get_next_bar_start_time ==
    get_cur_bar_start_time(backtest_cur_bar_index) + options.barsize

\* Backtest.__next_bar_exists
next_bar_exists == get_next_bar_start_time < end_time

\* a run that does not look at __can_run
may_run_again == TRUE

\* `if self.__can_run` in run
may_run == can_run

\* a loop that hands every queued event to __process_event
past_no_bar(time) == FALSE

\* `self.events.peek().time > self.__get_next_bar_start_time()` in
\* __run_next_bar
past_end_of_bar(time) == time > get_next_bar_start_time

\* `event.time > self.__get_next_bar_start_time()` in __process_event
from_future_bar(event) == event.time > get_next_bar_start_time

\* `self.cur_time + data_processing_time_to_completion` in
\* __on_new_bar_event
completion_time(time, took) == time + took

\* Backtest.__init__
RunInit ==
    /\ NoLattice
    /\ last = [op |-> "init", raised |-> "none"]
    /\ params = NoParams
    /\ field_op_input = NoParams
    /\ backtest_asset_ids = {}
    /\ datareaders = <<>>
    /\ twin = EmptyDict
    /\ events = <<>>
    /\ NoReader
    /\ start_time = 0
    /\ end_time \in EndTimes
    /\ options \in OptionChoices
    /\ can_run = TRUE
    /\ fields = <<>>
    /\ cur_time = start_time
    /\ backtest_cur_bar_index = -1
    /\ pc = "idle"
    /\ backtest_last = [op |-> "init", raised |-> "none", again |-> FALSE]
    /\ journal = <<>>

\* Backtest.add_data, before run
RunAddData ==
    /\ pc = "idle"
    /\ Len(datareaders) < MaxReaders
    /\ \E datareader \in RunReaders : add_data(datareader)
    /\ backtest_last' = [op |-> "add_data", raised |-> last'.raised,
                         again |-> FALSE]
    /\ UNCHANGED <<lattice_vars, field_vars, pair_vars, events, reader_vars,
                   start_time, end_time, options, can_run, fields, cur_time,
                   backtest_cur_bar_index, pc, journal>>

\* Backtest.add_field, before run
RunAddField ==
    /\ pc = "idle"
    /\ Len(fields) < MaxRunFields
    /\ \E field \in RunFields : fields' = Append(fields, field)
    /\ backtest_last' = [op |-> "add_field", raised |-> "none", again |-> FALSE]
    /\ UNCHANGED <<lattice_vars, last, field_vars, backtest_vars, pair_vars,
                   events, reader_vars, start_time, end_time, options, can_run,
                   cur_time, backtest_cur_bar_index, pc, journal>>

\* Backtest.run, up to the first add_field of __prepare_lattice; `again`
\* tells a call on a Backtest that has been run before
Run ==
    /\ pc \in {"idle", "returned", "raised"}
    /\ IF may_run
       THEN LET built(lattice) ==
                    /\ asset_ids' = lattice.asset_ids
                    /\ num_bars_stored' = lattice.num_bars_stored
                    /\ field_ids' = lattice.field_ids
                    /\ window_dep_fields' = lattice.window_dep_fields
                    /\ cross_sectional_fields' = lattice.cross_sectional_fields
                    /\ field_to_field_op' = lattice.field_to_field_op
                    /\ cur_bar_index' = lattice.cur_bar_index
                    /\ num_bars_completed' = lattice.num_bars_completed
                    /\ recent_bars' = lattice.recent_bars
                    /\ num_assets_completed' = lattice.num_assets_completed
                    /\ last' = lattice.last
                    /\ trace' = lattice.trace
                    /\ fed' = lattice.fed
                    /\ history' = lattice.history
            IN  /\ can_run' = FALSE
                /\ built(NewLattice(options.num_bars_to_store,
                                    SetToSeq(backtest_asset_ids)))
                /\ pc' = IF fields = <<>> THEN "bars" ELSE "prepare"
                /\ backtest_last' = [op |-> "run", raised |-> "none",
                                     again |-> ~can_run]
       ELSE /\ pc' = "raised"
            /\ backtest_last' = [op |-> "run", raised |-> "Exception",
                                 again |-> ~can_run]
            /\ UNCHANGED <<lattice_vars, last, can_run>>
    /\ UNCHANGED <<field_vars, backtest_vars, pair_vars, events, reader_vars,
                   start_time, end_time, options, fields, cur_time,
                   backtest_cur_bar_index, journal>>

\* one turn of `for field in self.__fields` in __prepare_lattice
PrepareStep ==
    /\ pc = "prepare"
    /\ add_field(fields[Len(field_ids) + 1])
    /\ pc' = IF last'.raised # "none" THEN "raised"
             ELSE IF Len(field_ids') = Len(fields) THEN "bars"
             ELSE "prepare"
    /\ backtest_last' = [backtest_last EXCEPT !.raised = last'.raised]
    /\ UNCHANGED <<field_vars, backtest_vars, pair_vars, events, reader_vars,
                   start_time, end_time, options, can_run, fields, cur_time,
                   backtest_cur_bar_index, journal>>

\* one turn of `while True` in run, up to the event loop of __run_next_bar
BarStep ==
    /\ pc = "bars"
    /\ IF ~next_bar_exists
       THEN /\ pc' = "returned"
            /\ UNCHANGED <<datareaders, events, cur_time, backtest_cur_bar_index,
                           backtest_last>>
       ELSE LET run_next_bar(loaded) ==
                  IF loaded.exc # "none"
                  THEN /\ pc' = "raised"
                       /\ backtest_last' =
                             [backtest_last EXCEPT !.raised = loaded.exc]
                       /\ UNCHANGED <<events, cur_time, backtest_cur_bar_index>>
                  ELSE IF ~loaded.all_loaded
                  THEN /\ pc' = "returned"
                       /\ UNCHANGED <<events, cur_time, backtest_cur_bar_index,
                                      backtest_last>>
                  ELSE /\ backtest_cur_bar_index' = backtest_cur_bar_index + 1
                       /\ cur_time' =
                             get_cur_bar_start_time(backtest_cur_bar_index + 1)
                       /\ events' =
                             push(events,
                                  NewBarEvent(cur_time' + options.open_delay_seconds,
                                              loaded.data,
                                              backtest_cur_bar_index + 1))
                       /\ pc' = "events"
                       /\ UNCHANGED backtest_last
                leave(loaded) ==
                  /\ datareaders' = loaded.readers
                  /\ run_next_bar(loaded)
            IN  leave(load_genesis_data)
    /\ UNCHANGED <<lattice_vars, last, field_vars, backtest_asset_ids, pair_vars,
                   reader_vars, start_time, end_time, options, can_run, fields,
                   journal>>

\* one turn of `while True` in __run_next_bar: the queue is empty, its first
\* event is past the bar, or the first event is popped and processed
EventStep ==
    /\ pc = "events"
    /\ IF empty(events) \/ past_end_of_bar(peek(events).event.time)
       THEN /\ pc' = "bars"
            /\ UNCHANGED <<lattice_vars, last, events, cur_time, backtest_last,
                           journal>>
       ELSE LET event == pop(events).event
                rest  == pop(events).series
                entry(raised) ==
                    [event |-> event, next_bar_start |-> get_next_bar_start_time,
                     raised |-> raised]
                leave(raised) ==
                    /\ journal' = Append(journal, entry(raised))
                    /\ backtest_last' = [backtest_last EXCEPT !.raised = raised]
                    /\ pc' = IF raised # "none" THEN "raised" ELSE "events"
            IN  IF from_future_bar(event)
                THEN /\ leave("Exception")
                     /\ events' = rest
                     /\ UNCHANGED <<lattice_vars, last, cur_time>>
                ELSE IF event.cls = "NewBarEvent"
                THEN /\ cur_time' = event.time
                     /\ new_bar(event.genesis_data)
                     /\ \E took \in 0..MaxTime :
                           IF last'.raised # "none"
                           THEN /\ took = 0
                                /\ leave(last'.raised)
                                /\ events' = rest
                           ELSE IF took > options.allotted_computation_time
                           THEN /\ leave("FieldComputationLatencyException")
                                /\ events' = rest
                           ELSE /\ leave("none")
                                /\ events' =
                                      push(rest,
                                           FieldProcessingCompletedEvent(
                                              completion_time(event.time, took),
                                              event.bar))
                ELSE IF event.cls \in {"FieldProcessingCompletedEvent",
                                       "OrderEvent"}
                THEN /\ cur_time' = event.time
                     /\ leave("none")
                     /\ events' = rest
                     /\ UNCHANGED <<lattice_vars, last>>
                ELSE /\ cur_time' = event.time
                     /\ leave("ValueError")
                     /\ events' = rest
                     /\ UNCHANGED <<lattice_vars, last>>
    /\ UNCHANGED <<field_vars, backtest_vars, pair_vars, reader_vars, start_time,
                   end_time, options, can_run, fields, backtest_cur_bar_index>>

RunNext ==
    RunAddData \/ RunAddField \/ Run \/ PrepareStep \/ BarStep \/ EventStep

RunSpec == RunInit /\ [][RunNext]_vars

----------------------------------------------------------------------------
(***************************************************************************)
(* Properties.                                                             *)
(***************************************************************************)
\* the registry: the registered fields and both adjacency maps
registry == <<field_ids, window_dep_fields, cross_sectional_fields,
              field_to_field_op>>

\* the layer at __cur_bar_index
CurrentLayer == recent_bars[cur_bar_index]

\* C1: once new_bar has been called at least once (however many bars were
\* injected, also after the ring index has wrapped), every add_field call
\* raises StaticDAGException and leaves the registered fields and both
\* adjacency maps as they were.
C1_AddFieldAfterStartFails ==
    [][(fed # <<>> /\ \E field \in Fields : add_field(field))
          => /\ last'.raised = "StaticDAGException"
             /\ registry' = registry]_vars

\* an add_field call was rejected after the ring index had wrapped
C1_Witness ==
    /\ last = [op |-> "add_field", raised |-> "StaticDAGException"]
    /\ num_bars_completed >= num_bars_stored
    /\ cur_bar_index = num_bars_completed % num_bars_stored

\* C2: before the first bar, add_field with a field_id that an earlier
\* add_field registered, whatever the kinds of the two declarations, raises
\* the duplicate-name Exception and leaves the registered fields and both
\* adjacency maps as they were; a new_bar call that follows is not refused:
\* it advances the ring and installs the genesis cells of its bar.
C2_DuplicateFieldRejected ==
    [][/\ \A field \in Fields :
            (/\ fed = <<>>
             /\ \E i \in DOMAIN field_ids : field_ids[i] = field.field_id
             /\ add_field(field))
                => /\ last'.raised = "Exception"
                   /\ registry' = registry
       /\ \A new_bar_data \in Bars :
            (/\ last = [op |-> "add_field", raised |-> "Exception"]
             /\ fed' = <<new_bar_data>>
             /\ new_bar(new_bar_data))
                => /\ cur_bar_index' = 0
                   /\ num_bars_completed' = 0
                   /\ last'.raised \notin {"BadDAGException", "StaticDAGException"}
                   /\ \A a \in Assets :
                        /\ HasCell(recent_bars'[0], a, "Open")
                        /\ recent_bars'[0].bar_data[a]["Open"]
                              = new_bar_data.vals[a].vals["Open"]]_vars

\* a second declaration under a registered name was rejected while fields of
\* all three kinds were registered
C2_Witness ==
    /\ last = [op |-> "add_field", raised |-> "Exception"]
    /\ fed = <<>>
    /\ \E i, j \in DOMAIN field_ids :
          /\ field_ids[i] \notin DOMAIN field_to_field_op
          /\ field_ids[j] \in DOMAIN field_to_field_op
          /\ IsCrossSectionalOp(field_to_field_op[field_ids[j]].cls)
    /\ \E k \in DOMAIN field_ids :
          /\ field_ids[k] \in DOMAIN field_to_field_op
          /\ IsWindowOp(field_to_field_op[field_ids[k]].cls)

\* the registered fields that carry a WindowOp / a CrossSectionalOp
WindowFields ==
    {f \in DOMAIN field_to_field_op : IsWindowOp(field_to_field_op[f].cls)}
CrossSectionalFields ==
    {f \in DOMAIN field_to_field_op : IsCrossSectionalOp(field_to_field_op[f].cls)}

\* the last call was a new_bar call / one that returned without raising
AfterNewBar == last.op = "new_bar" /\ cur_bar_index # -1
Returned == AfterNewBar /\ last.raised = "none"

\* the cell of (asset, field) in the layer that bar number bar (from 0) left
CellAt(bar, asset_id, field_id) == history[bar + 1].bar_data[asset_id][field_id]
HasCellAt(bar, asset_id, field_id) ==
    /\ bar + 1 \in DOMAIN history
    /\ HasCell(history[bar + 1], asset_id, field_id)

\* C3: after a new_bar call that returned, at bar k = num_bars_completed,
\* every Window field f with window_len L <= k + 1 on upstream g has, for
\* every asset a whose L most recent upstream cells exist, a cell f(a, k)
\* equal to op(<<g(a, k), g(a, k-1), ..., g(a, k-L+1)>>).
C3_WindowCellIsOpOfWindow ==
    Returned =>
        \A f \in WindowFields : \A a \in Assets :
            LET L == field_to_field_op[f].window_len
                g == field_to_field_op[f].dependent_field_id
                k == num_bars_completed
            IN  (/\ L >= 1
                 /\ k + 1 >= L
                 /\ \A j \in 0..(L - 1) : HasCellAt(k - j, a, g))
                    => /\ HasCell(CurrentLayer, a, f)
                       /\ CurrentLayer.bar_data[a][f]
                             = SMA_op([i \in 1..L |-> CellAt(k - (i - 1), a, g)])

\* C4: after a new_bar call that returned, every CrossSectional field f whose
\* upstream g has a cell for every asset in the current layer has, for every
\* asset a, the cell f(a) = op({a -> g(a)})[a]: one application of op to the
\* whole cross-section, with the cross-section's key set.
C4_CrossSectionIsOpOfCrossSection ==
    Returned =>
        \A f \in CrossSectionalFields :
            LET g == field_to_field_op[f].dependent_field_id
            IN  (\A a \in Assets : HasCell(CurrentLayer, a, g))
                    => LET out == Z_Score_op([a \in Assets |->
                                                CurrentLayer.bar_data[a][g]])
                       IN  \A a \in Assets :
                              /\ HasCell(CurrentLayer, a, f)
                              /\ CurrentLayer.bar_data[a][f] = out[a]

\* C5: after a new_bar call that returned, the current layer holds a cell
\* (a, f) for every asset a and every registered Window or CrossSectional
\* field f (stated for the fields whose upstream cell of a is in the layer).
C5_EveryDerivedCellPresent ==
    Returned =>
        \A f \in DOMAIN field_to_field_op : \A a \in Assets :
            HasCell(CurrentLayer, a, field_to_field_op[f].dependent_field_id)
                => HasCell(CurrentLayer, a, f)

\* how often the last new_bar call executed the op of field f
ExecuteCount(f) ==
    Cardinality({i \in DOMAIN trace :
                    trace[i].ev = "execute_op" /\ trace[i].field = f})

\* C6: in every bar a CrossSectional field's op is executed at most once,
\* exactly once when the call returns and the upstream field has its cells,
\* and only at a moment when the current layer holds the upstream field's
\* cell for every asset of the lattice.
C6_CrossSectionalFiresOnceOnCompleteInput ==
    AfterNewBar =>
        /\ \A i \in DOMAIN trace : trace[i].ev = "execute_op" => trace[i].flag
        /\ \A f \in CrossSectionalFields :
              /\ ExecuteCount(f) <= 1
              /\ (/\ Returned
                  /\ \A a \in Assets :
                        HasCell(CurrentLayer, a,
                                field_to_field_op[f].dependent_field_id))
                    => ExecuteCount(f) = 1

\* the chain Open -> F1 (SMA, 2) -> F2 (Z_Score) -> F3 (SMA, 3) is registered
ChainRegistered ==
    /\ {"F1", "F2", "F3"} \subseteq Range(field_ids)
    /\ field_to_field_op["F1"] = FieldOp(SMAField("F1", "Open", 2))
    /\ field_to_field_op["F2"] = FieldOp(ZScoreField("F2", "F1"))
    /\ field_to_field_op["F3"] = FieldOp(SMAField("F3", "F2", 3))

\* C7: with the chain Open -> SMA2 -> Z-on-SMA2 -> SMA3-on-Z registered over
\* the three assets, every new_bar call completes without raising and leaves
\* every (asset, field) cell of the current layer populated.
C7_ChainBarsComplete ==
    (ChainRegistered /\ AfterNewBar) =>
        /\ last.raised = "none"
        /\ \A a \in Assets : \A f \in {"Open", "F1", "F2", "F3"} :
              HasCell(CurrentLayer, a, f)

\* C8: after a new_bar call for a warm-up bar k (k + 1 < L) of a Window field
\* f with window_len L, every asset a whose upstream cell was installed has
\* the cell f(a, k) = partial_op(...), the missing sentinel.
C8_WarmUpYieldsPartialOp ==
    AfterNewBar =>
        \A f \in WindowFields : \A a \in Assets :
            LET L == field_to_field_op[f].window_len
                g == field_to_field_op[f].dependent_field_id
                k == num_bars_completed
            IN  (/\ k + 1 < L
                 /\ \A j \in 0..k : HasCellAt(j, a, g))
                    => /\ HasCell(CurrentLayer, a, f)
                       /\ CurrentLayer.bar_data[a][f] = NaN

\* C9: a Window field f registered with window_len > num_bars_stored never
\* makes new_bar fail, and on every bar (also once the ring has filled) every
\* asset a whose upstream cell is in the layer has the cell f(a) = missing.
C9_OverlongWindowDegradesSilently ==
    AfterNewBar =>
        \A f \in WindowFields : \A a \in Assets :
            (/\ field_to_field_op[f].window_len > num_bars_stored
             /\ field_to_field_op[f].dependent_field_id = "Open")
                => /\ last.raised = "none"
                   /\ HasCell(CurrentLayer, a, f)
                   /\ CurrentLayer.bar_data[a][f] = NaN

\* the roots of the dependency graph: the registered injection fields and
\* the genesis fields the bars carry
Roots == (Range(field_ids) \ DOMAIN field_to_field_op) \cup {"Open"}

RECURSIVE ReachedFromRoot(_, _)
\* does following dependent_field_id from f reach a root within n steps?
ReachedFromRoot(f, n) ==
    IF f \in Roots THEN TRUE
    ELSE IF n = 0 \/ f \notin DOMAIN field_to_field_op THEN FALSE
    ELSE ReachedFromRoot(field_to_field_op[f].dependent_field_id, n - 1)

\* the registered graph has a cycle or a field no root reaches
BadDAG ==
    \E f \in DOMAIN field_to_field_op : ~ReachedFromRoot(f, Len(field_ids))

\* C10: when the registered graph has a cycle or a non-injection field that no
\* injection field reaches, the first new_bar call raises BadDAGException
\* without advancing the ring, and so does every later one.
C10_BadDAGRefused ==
    (fed # <<>> /\ BadDAG) =>
        /\ last.op = "new_bar" => last.raised = "BadDAGException"
        /\ cur_bar_index = -1
        /\ num_bars_completed = -1

\* the offsets a caller hands to a historical read
Offsets == -1..(num_bars_stored + 1)

\* the value bar number bar (from 0) supplied for (asset_id, field_id)
Supplied(bar, asset_id, field_id) == fed[bar + 1].vals[asset_id].vals[field_id]

layer_ago(n) ==
    get_n_bar_ago_data(recent_bars, cur_bar_index, num_bars_completed, n)

C13_RingReads ==
    /\ \A n \in Offsets :
          /\ layer_ago(n).exc = "none"
                <=> (0 <= n /\ n < Min(Len(fed), num_bars_stored))
          /\ layer_ago(n).exc = "none"
                => /\ layer_ago(n).layer.is_layer
                   /\ layer_ago(n).layer = history[Len(fed) - n]
    /\ layer_ago(num_bars_stored).exc = "ValueError"
    /\ num_bars_completed >= num_bars_stored - 1
          => layer_ago(num_bars_stored - 1).exc = "none"

\* the ring has wrapped, and a ring of two hands out both of its layers
C13_Witness ==
    \/ /\ num_bars_stored = 1 /\ Len(fed) = 2
       /\ layer_ago(0).layer = history[2] /\ history[1] # history[2]
    \/ /\ num_bars_stored = 2 /\ Len(fed) = 2
       /\ layer_ago(1).layer = history[1] /\ history[1] # history[2]

\* C14: bars_completed is -1 before the first new_bar call and is one less
\* than the number of new_bar calls made after it: every call, also one
\* that repeats the data of the call before it or that raises, adds a bar.
C14_BarsCompletedCountsCalls ==
    /\ num_bars_completed = Len(fed) - 1
    /\ Len(history) = Len(fed)

\* new_bar was called twice with the same data on a ring of one slot
C14_Witness ==
    /\ Len(fed) = 2 /\ fed[1] = fed[2]
    /\ num_bars_stored = 1 /\ cur_bar_index = 0
    /\ num_bars_completed = 1

\* C15: after a new_bar call that returned, every SMA field f with
\* window_len 1 has, for every asset a whose upstream cell is in the current
\* layer, a cell f(a) equal to that upstream value, on every bar from bar 0.
C15_UnitWindowCopiesUpstream ==
    Returned =>
        \A f \in WindowFields : \A a \in Assets :
            LET g == field_to_field_op[f].dependent_field_id
            IN  (field_to_field_op[f].window_len = 1 /\ HasCell(CurrentLayer, a, g))
                    => /\ HasCell(CurrentLayer, a, f)
                       /\ CurrentLayer.bar_data[a][f] = CurrentLayer.bar_data[a][g]

\* C16: after a new_bar call that returned (the registered graph having
\* neither a cycle nor an unreachable field), output_bar succeeds and its
\* cell for every asset and every registered field is the value the current
\* layer holds for that pair.
C16_SnapshotShowsCurrentLayer ==
    (Returned /\ ~BadDAG /\ "Open" \in Range(field_ids)) =>
        /\ output_bar.exc = "none"
        /\ \A a \in Assets : \A f \in Range(field_ids) :
              /\ HasCell(CurrentLayer, a, f)
              /\ output_bar.table[a][f] = CurrentLayer.bar_data[a][f]

\* the slice of field_id out of the current layer, as the lattice reads it
field_slice(field_id) ==
    get_n_bar_ago_field_data(recent_bars, cur_bar_index, num_bars_completed,
                             0, field_id)

\* the assets with a cell for field_id in the current layer
AssetsWith(field_id) == {a \in Assets : HasCell(CurrentLayer, a, field_id)}

\* C17: for the layer any new_bar call leaves, the slice of a field that
\* some asset holds is the mapping from each asset that has a cell for the
\* field to that cell's value, also when other assets have cells for other
\* fields only.
C17_FieldSliceIsCellsOfField ==
    AfterNewBar =>
        \A f \in Range(field_ids) \cup {"Open"} :
            AssetsWith(f) # {}
                => field_slice(f)
                     = [exc |-> "none",
                        data |-> [a \in AssetsWith(f) |->
                                    CurrentLayer.bar_data[a][f]]]

\* C20: every value the last new_bar call computed for a Window or
\* CrossSectional field was inserted into the current layer: each node whose
\* propagation completed has an insertion of its cell before it, whatever
\* the value (zero and the missing sentinel included).
C20_EveryComputedValueInserted ==
    AfterNewBar =>
        \A i \in DOMAIN trace :
            trace[i].ev = "completed"
                => /\ \E j \in 1..i :
                        trace[j] = Event("insert", trace[i].asset,
                                         trace[i].field, TRUE)
                   /\ HasCell(CurrentLayer, trace[i].asset, trace[i].field)


----------------------------------------------------------------------------
(***************************************************************************)
(* Properties of Field.                                                    *)
(***************************************************************************)
\* the arguments a user gives to the constructor of a field operation
constructor_args(field_op) ==
    { field_op.co_varnames[i] : i \in 1..field_op.co_argcount }
        \ ({"self"} \cup PROHIBITED_USER_PROVIDED_FIELD_ATTRIBUTES)

\* those of them that have a default
optional_constructor_args(field_op) ==
    { field_op.co_varnames[i] :
          i \in (field_op.co_argcount - field_op.n_defaults + 1)..field_op.co_argcount }

required_constructor_args(field_op) ==
    constructor_args(field_op) \ optional_constructor_args(field_op)

\* params names a field operation and gives it its arguments
WellFormed(given) ==
    /\ "lattice" \notin DOMAIN given
    /\ FIELD_OPERATION_KW \in DOMAIN given
    /\ isclass(given[FIELD_OPERATION_KW])
    /\ issubclass_FieldOp(given[FIELD_OPERATION_KW])
    /\ LET required == required_constructor_args(given[FIELD_OPERATION_KW])
           optional == optional_constructor_args(given[FIELD_OPERATION_KW])
       IN  /\ required \subseteq DOMAIN given
           /\ \A id \in {FIELD_ID_KW, DEP_FIELD_ID_KW} \cap required :
                  isinstance_FieldId(given[id])
           /\ ((DOMAIN given) \ {FIELD_OPERATION_KW}) \ required \subseteq optional

\* C18: Field(params) is accepted if and only if params has no 'lattice'
\* key, has a 'field_operation' that is a FieldOp subclass, contains every
\* required constructor argument of that operation (field_id and
\* dependent_field_id being FieldId values), and every remaining key is an
\* optional constructor argument of that operation; otherwise the
\* construction raises ValueError.
C18_FieldAcceptedIffWellFormed ==
    last.op = "Field"
        => /\ last.raised \in {"none", "ValueError"}
           /\ (last.raised = "none") <=> WellFormed(params)

----------------------------------------------------------------------------
(***************************************************************************)
(* Properties of Backtest.                                                 *)
(***************************************************************************)
\* a reader of this asset is in the reader list
HasReader(asset_id) ==
    \E i \in DOMAIN datareaders : datareaders[i].asset_id = asset_id

\* C19: add_data raises ValueError for a DataReader whose asset_id already
\* has a DataReader in the reader list, after any sequence of add_data
\* calls, and the rejected call leaves the reader list as it was, so no
\* asset ever has two readers.
C19_DuplicateReaderRejected ==
    [][\A datareader \in DataReaders :
          (/\ HasReader(datareader.asset_id)
           /\ add_data(datareader))
              => /\ last'.raised = "ValueError"
                 /\ datareaders' = datareaders]_vars

----------------------------------------------------------------------------
(***************************************************************************)
(* Properties of the registry and of one new_bar call.                     *)
(***************************************************************************)
\* C21: add_field accepts a Window or CrossSectional declaration only if its
\* dependent_field_id names a field that is already registered, so in every
\* reachable state the upstream of every non-injection field is a field
\* registered before it.
C21_UpstreamRegisteredEarlier ==
    \A i \in DOMAIN field_ids :
        field_ids[i] \in DOMAIN field_to_field_op
            => \E j \in 1..(i - 1) :
                  field_ids[j] = field_to_field_op[field_ids[i]].dependent_field_id

\* C24: the per-bar counter map is empty (zero for every field) whenever a
\* new_bar call starts, that is in every state between two calls, so a
\* barrier never releases on counts accumulated by an earlier call.
C24_CountersEmptyBetweenCalls ==
    \A f \in DOMAIN num_assets_completed : num_assets_completed[f] = 0

\* the (asset, field) pairs the last new_bar call wrote, in any order
Written == { <<trace[i].asset, trace[i].field>> :
                 i \in { j \in DOMAIN trace : trace[j].ev = "insert" } }

\* the (asset, field) pairs that have a cell in the layer
Cells(layer) ==
    { <<a, f>> \in Assets \X ({"Open"} \cup Range(field_ids)) : HasCell(layer, a, f) }

\* C25: when an operation or a cell read raises during new_bar, the call
\* ends with the ring index advanced by one (modulo the capacity) and the
\* count of bars advanced by one, the current layer holds exactly the cells
\* written before the failure, and the other layers of the ring are as they
\* were before the call.
C25_FailedBarIsConsumed ==
    [][(fed' # fed /\ last'.raised # "none")
          => /\ cur_bar_index' = (cur_bar_index + 1) % num_bars_stored
             /\ num_bars_completed' = num_bars_completed + 1
             /\ recent_bars'[cur_bar_index'].is_layer
             /\ Cells(recent_bars'[cur_bar_index']) = Written'
             /\ \A i \in DOMAIN recent_bars :
                    i # cur_bar_index' => recent_bars'[i] = recent_bars[i]]_vars

\* a second bar failed after a derived cell was written, while the layer of
\* the first bar was still in the ring
C25_Witness ==
    /\ last.op = "new_bar"
    /\ last.raised # "none"
    /\ num_bars_stored = 2
    /\ num_bars_completed = 1
    /\ recent_bars[0].is_layer
    /\ \E a \in Assets : \E f \in DOMAIN field_to_field_op : HasCell(CurrentLayer, a, f)

\* the (asset, field) pairs for which the last new_bar call produced a
\* value: the genesis cells it installed and the nodes it computed
Produced ==
    Written \cup { <<trace[i].asset, trace[i].field>> :
                      i \in { j \in DOMAIN trace : trace[j].ev = "completed" } }

\* C28: during a new_bar call every cell write goes to the current layer
\* only: every (asset, field) value produced in bar k is in the layer
\* installed for bar k, and no layer that belongs to an earlier bar is
\* modified by the injection or by a field operation.
C28_WritesGoToCurrentLayerOnly ==
    [][fed' # fed
          => /\ Produced' \subseteq Cells(recent_bars'[cur_bar_index'])
             /\ \A i \in DOMAIN recent_bars :
                    i # cur_bar_index' => recent_bars'[i] = recent_bars[i]]_vars



WindowChildren(field_id) ==
    IF field_id \in DOMAIN window_dep_fields
    THEN Range(window_dep_fields[field_id]) ELSE {}

RECURSIVE WindowDescendants(_, _)
\* the fields reached from field_id along at most n window edges
WindowDescendants(field_id, n) ==
    IF n = 0 THEN {}
    ELSE WindowChildren(field_id)
            \cup UNION { WindowDescendants(w, n - 1) : w \in WindowChildren(field_id) }

\* the positions of the log at which ev was recorded for (asset_id, field_id)
Positions(ev, asset_id, field_id) ==
    { i \in DOMAIN trace : /\ trace[i].ev = ev
                           /\ trace[i].asset = asset_id
                           /\ trace[i].field = field_id }

\* C26: in the log of a new_bar call, when the counter of field f is
\* incremented for asset a, every window-edge descendant of f has been
\* propagated and counted for a since propagate was entered for (a, f); and
\* when a cross-sectional dependant of f executes its op (f a genesis field
\* or a derived one), every window-edge descendant of f has been propagated
\* and counted for every asset of the lattice.
C26_WindowDescendantsBeforeBarrier ==
    \A i \in DOMAIN trace :
        /\ trace[i].ev = "completed"
              => \A w \in WindowDescendants(trace[i].field, Len(field_ids)) :
                    \E p \in Positions("propagate", trace[i].asset, trace[i].field) :
                    \E j \in Positions("completed", trace[i].asset, w) :
                        p < j /\ j < i
        /\ trace[i].ev = "execute_op"
              => \A w \in WindowDescendants(
                              field_to_field_op[trace[i].field].dependent_field_id,
                              Len(field_ids)) :
                 \A a \in Range(asset_ids) :
                    \E j \in Positions("completed", a, w) : j < i

\* a bar returned in which F2 (a window on Open) has the window dependant F3
\* and the cross-sectional dependant F1: all three were computed for AAPL
C26_Witness ==
    /\ Returned
    /\ asset_ids = <<"AAPL">>
    /\ "F2" \in DOMAIN window_dep_fields /\ "F2" \in DOMAIN cross_sectional_fields
    /\ \A f \in {"F1", "F2", "F3"} : HasCell(CurrentLayer, "AAPL", f)
    /\ \E i \in DOMAIN trace : trace[i].ev = "execute_op" /\ trace[i].field = "F1"


----------------------------------------------------------------------------
(***************************************************************************)
(* Properties of new_bar on registries and bars taken unchecked.           *)
(***************************************************************************)
\* the bar handed to the last new_bar call, and the fields of its first asset
LastFed == fed[Len(fed)]
FirstKeys == Range(LastFed.vals[LastFed.keys[1]].keys)

\* C29: after a new_bar call the current layer holds, of the fields that
\* are not derived, exactly the cells (a, g) with a an asset of the bar and g
\* a field of the first asset's sub-map that a carries, each with the value
\* supplied; and when the call raised because an asset lacks such a field,
\* the error comes from a read made while propagating.
C29_GenesisCellsFromFirstAsset ==
    AfterNewBar
        => /\ \A a \in Range(LastFed.keys) : \A g \in FirstKeys :
                  (g \in DOMAIN LastFed.vals[a].vals /\ g \notin DOMAIN field_to_field_op)
                      => /\ HasCell(CurrentLayer, a, g)
                         /\ CurrentLayer.bar_data[a][g] = LastFed.vals[a].vals[g]
           /\ \A a \in Assets : \A g \in {"Open", "Close"} \ DOMAIN field_to_field_op :
                  HasCell(CurrentLayer, a, g)
                      => g \in FirstKeys /\ a \in Range(LastFed.keys)
           /\ last.raised # "none"
                  => \E i \in DOMAIN trace : trace[i].ev = "propagate"

\* C30: no layer receives two writes for the same (asset, field) pair in one
\* new_bar call: the log of the call has at most one insert per pair.
C30_NoSecondWrite ==
    \A i, j \in DOMAIN trace :
        (/\ trace[i].ev = "insert" /\ trace[j].ev = "insert"
         /\ trace[i].asset = trace[j].asset /\ trace[i].field = trace[j].field)
            => i = j

\* C23: within one new_bar call __propagate is entered at most once for each
\* (asset, field) pair.
C23_PropagateOncePerNode ==
    \A a \in Assets : \A f \in {"Open", "Close"} \cup Range(field_ids) :
        Cardinality(Positions("propagate", a, f)) <= 1

\* C22: no new_bar call recurses until the interpreter's stack is full.
C22_NewBarTerminates == last.raised # "RecursionError"


----------------------------------------------------------------------------
(***************************************************************************)
(* Properties of two lattices that differ in their iteration orders.       *)
(***************************************************************************)
\* C27: two lattices that hold the same declarations (registered in any two
\* orders, their assets iterated in any two orders) and were given the same
\* bars either both failed in the last new_bar call or both returned with
\* the same cells and values in the current layer.
C27_LayerIndependentOfIterationOrder ==
    (SameRegistry /\ fed # <<>> /\ fed = twin.fed)
        => \/ last.raised # "none" /\ twin.last.raised # "none"
           \/ /\ last.raised = "none" /\ twin.last.raised = "none"
              /\ CurrentLayer.bar_data
                    = twin.recent_bars[twin.cur_bar_index].bar_data


\* C31: every Window field of the registry has a window_len of at least 1.
C31_WindowLenAtLeastOne ==
    \A f \in DOMAIN field_to_field_op :
        IsWindowOp(field_to_field_op[f].cls) => field_to_field_op[f].window_len >= 1


----------------------------------------------------------------------------
(***************************************************************************)
(* Properties of the event queue.                                          *)
(***************************************************************************)
\* C33: a pop on a queue that holds events returns one of them whose time
\* is the smallest and removes just that one; two pops in a row hand out
\* times that do not decrease; a pop on an empty queue raises IndexError
\* and leaves the queue empty.
C33_PopReturnsEarliest ==
    [][(last'.op = "pop" /\ (events' # events \/ events = <<>>))
          => IF events = <<>>
             THEN last'.raised = "IndexError" /\ events' = <<>>
             ELSE /\ last'.raised = "none"
                  /\ last'.event \in Range(events)
                  /\ \A e \in Range(events) : last'.event.time <= e.time
                  /\ Len(events') = Len(events) - 1
                  /\ Range(events') = Range(events) \ {last'.event}
                  /\ (last.op = "pop" /\ last.raised = "none")
                        => last.event.time <= last'.event.time]_vars

\* a pop has handed out an event and two later ones are still queued
C33_Witness ==
    /\ last.op = "pop" /\ last.raised = "none"
    /\ Len(events) >= 2
    /\ \A e \in Range(events) : last.event.time < e.time

\* C34: every push makes the queue one event longer: the events queued
\* before are still queued and the pushed one is among them.
C34_PushAddsOneEvent ==
    [][(last'.op = "push" /\ (events' # events \/ last' # last))
          => /\ Len(events') = Len(events) + 1
             /\ Range(events) \subseteq Range(events')
             /\ last'.event \in Range(events')]_vars


----------------------------------------------------------------------------
(***************************************************************************)
(* Properties of the data reader.                                          *)
(***************************************************************************)
RECURSIVE RowsOf(_)
\* the rows of the files of paths, file after file
RowsOf(paths) ==
    IF paths = <<>> THEN <<>>
    ELSE read_csv(Head(paths)).rows \o RowsOf(Tail(paths))

\* C39: the rows get_next_bar has returned are the first rows of the files
\* of data_paths, in order; a get_next_bar call raises only when every row
\* of every file has been returned, and then it raises
\* NoMoreDataAvailableException.
C39_NextBarWalksTheFiles ==
    /\ Len(returned) <= Len(RowsOf(data_paths))
    /\ \A i \in DOMAIN returned : returned[i] = RowsOf(data_paths)[i]
    /\ (last.op = "get_next_bar" /\ last.raised # "none")
          => /\ returned = RowsOf(data_paths)
             /\ last.raised = "NoMoreDataAvailableException"

\* C40: a get_cur_bar call leaves the reader where it is and, when it
\* returns, returns the row of the most recent get_next_bar call.
C40_CurBarIsLastNextBar ==
    [][last'.op = "get_cur_bar"
          => /\ UNCHANGED <<cur_file_index, cur_data_index, cur_data>>
             /\ last'.raised = "none"
                   => /\ returned # <<>>
                      /\ last'.value = returned[Len(returned)]]_vars

----------------------------------------------------------------------------
\* the asset_ids of the data readers added with add_data
ReaderAssetIds == { datareaders[i].asset_id : i \in DOMAIN datareaders }

\* C32: once run has prepared the lattice, the lattice's asset set is the
\* set of asset_ids of the readers that add_data accepted.
C32_LatticeAssetsAreReaderAssets ==
    ~can_run => Range(asset_ids) = ReaderAssetIds

\* C38: a call of run on a Backtest that has been run before raises and
\* prepares no lattice, loads no data and processes no event.
C38_RunAtMostOnce ==
    [][(backtest_last'.op = "run" /\ backtest_last'.again
            /\ backtest_last' # backtest_last)
          => /\ backtest_last'.raised = "Exception"
             /\ pc' = "raised"
             /\ UNCHANGED <<lattice_vars, datareaders, events, journal, cur_time,
                            backtest_cur_bar_index, can_run>>]_vars

\* a second call of run has raised after a first one that processed a bar
C38_Witness ==
    /\ backtest_last = [op |-> "run", raised |-> "Exception", again |-> TRUE]
    /\ journal # <<>>
    /\ fed # <<>>

\* the start of the bar after the one the backtest is in
NextBarStart == start_time + (backtest_cur_bar_index + 1) * options.barsize

\* C37: every event handed to __process_event is the first of the queue and
\* is timed no later than the start of the next bar, and a turn of the event
\* loop that finds a later event first in the queue leaves it there.
C37_OnlyEventsOfTheBarProcessed ==
    [][/\ journal' # journal
            => /\ Len(journal') = Len(journal) + 1
               /\ events # <<>>
               /\ journal'[Len(journal')].event = events[1]
               /\ events[1].time <= NextBarStart
               /\ \A e \in Range(events') : e # events[1]
       /\ (pc = "events" /\ events # <<>> /\ events[1].time > NextBarStart)
            => /\ events' = events
               /\ journal' = journal
               /\ pc' = "bars"]_vars

\* an event that was left on the queue at the end of its bar has been
\* processed in a later bar
C37_Witness ==
    \E j \in DOMAIN journal :
        /\ journal[j].event.time
              > start_time + (journal[j].event.bar + 1) * options.barsize
        /\ journal[j].raised = "none"

\* C35: a turn of the event loop that processes a NewBarEvent hands the
\* event's genesis data to new_bar once and, unless the measured time is
\* over the allotted one, the lattice finishes the bar and the turn adds
\* exactly one FieldProcessingCompletedEvent of that bar to the queue, timed
\* no earlier than the NewBarEvent; a turn that invokes on_data_event for a
\* bar comes after a new_bar of that bar that returned.
C35_NewBarThenOneCompletion ==
    [][(journal' # journal /\ events # <<>>)
          => LET event == events[1]
                 added == { e \in Range(events') : e \notin Range(events) }
             IN  /\ event.cls = "NewBarEvent"
                       => /\ fed' = Append(fed, event.genesis_data)
                          /\ journal'[Len(journal')].raised
                                # "FieldComputationLatencyException"
                                => /\ last' = [op |-> "new_bar", raised |-> "none"]
                                   /\ Cardinality(added) = 1
                                   /\ \A e \in added :
                                         /\ e.cls = "FieldProcessingCompletedEvent"
                                         /\ e.bar = event.bar
                                         /\ e.time >= event.time
                 /\ event.cls = "FieldProcessingCompletedEvent"
                       => \E j \in DOMAIN journal :
                             /\ journal[j].event.cls = "NewBarEvent"
                             /\ journal[j].event.bar = event.bar
                             /\ journal[j].raised = "none"]_vars

\* the number of times on_data_event was invoked for the bar
DataEvents(bar) ==
    Cardinality({ j \in DOMAIN journal :
                     /\ journal[j].event.cls = "FieldProcessingCompletedEvent"
                     /\ journal[j].event.bar = bar })

\* C36: when run has returned, on_data_event has been invoked exactly once
\* for every bar whose NewBarEvent was processed.
C36_OneDataEventPerProcessedBar ==
    pc = "returned"
       => \A j \in DOMAIN journal :
             journal[j].event.cls = "NewBarEvent"
                => DataEvents(journal[j].event.bar) = 1

============================================================================
